---- MODULE Spec2Model ----
(***************************************************************************)
(* EMG frame streaming: the collector (src/server.js) and the producer     *)
(* firmware (src/unnamed/part_000).                                        *)
(*                                                                         *)
(* Collector: the module-level state of server.js (clients, stats,         *)
(* recentFrames) and one action per handler.  JavaScript objects are       *)
(* records whose DOMAIN is the set of properties present, so a missing     *)
(* property is a missing field.  JavaScript numbers that can become        *)
(* undefined or NaN are tagged records (Num, Undefined, NaN).              *)
(***************************************************************************)
EXTENDS Integers, Sequences, FiniteSets, TLC

(***************************************************************************)
(* Sizes.  The program constants are scaled down so that the cases that    *)
(* depend on them (eviction at capacity, a full frame buffer) are reached  *)
(* within a few steps; the code compares against the constant only.        *)
(***************************************************************************)
\* src/server.js:27 sets 1000; scaled.
MAX_STORED_FRAMES == 2
\* src/unnamed/part_000:20 sets 10; scaled.
SAMPLES_PER_FRAME == 2

\* src/unnamed/part_000:50 sets 100; scaled.
CALIBRATION_SAMPLES == 2
\* src/unnamed/part_000:56 sets 15; scaled.
ARRAY_SIZE == 3
\* src/unnamed/part_000:65: alpha = 0.35 = ALPHA_NUM / ALPHA_DEN
ALPHA_NUM == 7
ALPHA_DEN == 20

\* Bounds of the exploration.
MaxTicks == 12
MaxIngest == 3
MaxSeq == 4
MaxClients == 2
MaxNow == 1
MaxCondTicks == 8

(***************************************************************************)
(* JavaScript values                                                       *)
(***************************************************************************)
Undefined == [t |-> "undefined"]
NaN == [t |-> "NaN"]
Num(n) == [t |-> "number", n |-> n]
IsNum(v) == v.t = "number"

\* v + 1 for a number or undefined (undefined + 1 is NaN, NaN + 1 is NaN)
JsPlus1(v) == IF IsNum(v) THEN Num(v.n + 1) ELSE NaN
\* a > b: false as soon as one side is undefined or NaN
JsGt(a, b) == IsNum(a) /\ IsNum(b) /\ a.n > b.n

Has(obj, f) == f \in DOMAIN obj
Range(s) == {s[i] : i \in DOMAIN s}

(***************************************************************************)
(* Collector state                                                         *)
(***************************************************************************)
VARIABLES
    clients,        \* server.js:16  list of ws objects, in connection order
    readyState,     \* ws.readyState of every ws object (library state)
    stats,          \* server.js:17
    recentFrames,   \* server.js:28
    now,            \* the wall clock read by Date.now() / new Date()
    builtins,       \* per property name every object inherits: the value of
                    \* lastFrameSequence on the built-in it names
    \* history variables: not program state, they record what happened
    arrivals,       \* number of frames pushed since recentFrames was last emptied
    seqLog,         \* per device entry: the frameSequence values ingested since
                    \* the entry was created
    nIngest,        \* number of POST /api/emg requests handled (bounds the run)
    firstReceived,  \* per ws object: the type of the first message sent to it
                    \* since it connected, "none" before that
    lastOp          \* the last handler run: request, response, what it broadcast
                    \* to whom, the store at the time of the broadcast, and the
                    \* set of ws objects whose send threw

collectorVars == <<clients, readyState, stats, recentFrames, now, builtins,
                   arrivals, seqLog, nIngest, firstReceived, lastOp>>

(***************************************************************************)
(* Producer state                                                          *)
(***************************************************************************)
VARIABLES
    mcu,            \* the globals of the firmware, part_000:32-74, one field each
    link,           \* WiFi.status() == WL_CONNECTED
    ticks,          \* number of sampling intervals elapsed; micros() in that unit
    \* history variables
    readLog,        \* the readings taken, one per sampling tick, in order
    discarded,      \* ordinals of the samples conditioned while the buffer was full
    emitted,        \* one entry per frame serialized and posted, in order
    handed,         \* one entry per call of sendFrameToServer(), in order: the
                    \* timestamps of the buffer it was called on
    lastSend        \* the last pass through the send branch of loop()

producerVars == <<mcu, link, ticks, readLog, discarded, emitted, handed, lastSend>>

vars == <<collectorVars, producerVars>>

WsIds == 1..MaxClients
DeviceIds == {"D1", "D2"}
Seqs == 0..MaxSeq

\* Frames on the wire (README "Frame Data Format"); the sample payload is
\* not read by the collector and is left out of the message.
WellFormed ==
    {[deviceId |-> "D1", frameSequence |-> s, samplingRate |-> 1000,
      samplesInFrame |-> SAMPLES_PER_FRAME] : s \in Seqs}
    \cup
    {[deviceId |-> "D2", frameSequence |-> s, samplingRate |-> 1000,
      samplesInFrame |-> SAMPLES_PER_FRAME] : s \in {0, MaxSeq}}

\* JSON objects that lack a property of the frame format.
Malformed ==
    { [frameSequence |-> 1, samplingRate |-> 1000, samplesInFrame |-> SAMPLES_PER_FRAME],
      [deviceId |-> "D1", samplingRate |-> 1000, samplesInFrame |-> SAMPLES_PER_FRAME],
      [deviceId |-> "D1", frameSequence |-> 2, samplingRate |-> 1000],
      [samplingRate |-> 1000] }

Bodies == WellFormed \cup Malformed

\* A request whose body the body parser left undefined has no body property.
EmgRequests == {[url |-> "/api/emg"]} \cup {[url |-> "/api/emg", body |-> b] : b \in Bodies}

InitialStats ==
    [framesReceived |-> 0, samplesReceived |-> 0, lastFrameSequence |-> -1,
     droppedFrames |-> 0, lastReceiveTime |-> Undefined, devices |-> <<>>]

\* stats.devices is a plain object literal (line 23): a lookup under a name
\* it has no entry for goes on to Object.prototype, which holds a function
\* under each of these names (there are more; __proto__ is left out).
InheritedKeys == {"constructor", "toString"}

\* line 72: stats.devices[deviceId] is truthy although no entry was made
IsInherited(devices, deviceId) ==
    deviceId \notin DOMAIN devices /\ deviceId \in InheritedKeys

NewDeviceStats ==
    [framesReceived |-> 0, samplesReceived |-> 0, lastFrameSequence |-> Num(-1),
     droppedFrames |-> 0]

NoBroadcast == [msg |-> [type |-> "none"], attempted |-> {}, delivered |-> {},
                threw |-> FALSE]
NoRequest == [url |-> "none"]
NoResponse == [status |-> 0, success |-> FALSE]

CollectorInit ==
    /\ clients = <<>>
    /\ readyState = [w \in WsIds |-> "NONE"]
    /\ stats = InitialStats
    /\ recentFrames = <<>>
    /\ now = 0
    /\ builtins = [k \in InheritedKeys |-> Undefined]
    /\ arrivals = 0
    /\ seqLog = <<>>
    /\ nIngest = 0
    /\ firstReceived = [w \in WsIds |-> "none"]
    /\ lastOp = [op |-> "start", req |-> NoRequest, res |-> NoResponse,
                 bcast |-> NoBroadcast, storeAtBroadcast |-> <<>>, fail |-> {}]

(***************************************************************************)
(* broadcast(message): server.js:299-310.  forEach visits the clients in   *)
(* list order; a client that is not OPEN is skipped; a send that throws is *)
(* caught inside the loop body, so the loop goes on and broadcast itself   *)
(* never throws.  fail is the set of ws objects whose send throws.         *)
(***************************************************************************)
OpenIdx(cl, rs) == {i \in DOMAIN cl : rs[cl[i]] = "OPEN"}

\* the ws objects a broadcast tries to send to
OpenClients == {clients[i] : i \in OpenIdx(clients, readyState)}

\* variant: the loop stops one client short
broadcastSkipsLast(cl, rs, message, fail) ==
    LET idx == {i \in OpenIdx(cl, rs) : i < Len(cl)}
    IN  [msg |-> message,
         attempted |-> {cl[i] : i \in idx},
         delivered |-> {cl[i] : i \in {j \in idx : cl[j] \notin fail}},
         threw |-> FALSE]

\* variant: no try/catch around send, the first throwing send ends the loop
\* and the exception leaves broadcast
broadcastNoCatch(cl, rs, message, fail) ==
    LET failing == {i \in OpenIdx(cl, rs) : cl[i] \in fail}
        stop == IF failing = {} THEN Len(cl) + 1
                ELSE CHOOSE i \in failing : \A j \in failing : i <= j
    IN  [msg |-> message,
         attempted |-> {cl[i] : i \in {j \in OpenIdx(cl, rs) : j <= stop}},
         delivered |-> {cl[i] : i \in {j \in OpenIdx(cl, rs) : j < stop}},
         threw |-> failing # {}]

broadcast(cl, rs, message, fail) ==
    [msg |-> message,
     attempted |-> {cl[i] : i \in OpenIdx(cl, rs)},
     delivered |-> {cl[i] : i \in {j \in OpenIdx(cl, rs) : cl[j] \notin fail}},
     threw |-> FALSE]

\* history: what each ws object received first, after the sends of b
Receive(fr, b) ==
    [w \in WsIds |-> IF w \in b.delivered /\ fr[w] = "none" THEN b.msg.type ELSE fr[w]]

(***************************************************************************)
(* POST /api/emg: server.js:59-140                                         *)
(***************************************************************************)
\* lines 66-95: aggregate and per-device counters, gap detection
\* variant: the gap is measured from lastFrameSequence instead of expectedSeq
UpdateStatsGapFromLast(st, deviceId, frameSeq, samplesCount, time) ==
    LET devs0 == IF deviceId \in DOMAIN st.devices
                 THEN st.devices
                 ELSE st.devices @@ (deviceId :> NewDeviceStats)
        d0 == devs0[deviceId]
        expectedSeq == JsPlus1(d0.lastFrameSequence)
        gap == d0.lastFrameSequence # Num(-1) /\ JsGt(frameSeq, expectedSeq)
        dropped == IF gap THEN frameSeq.n - d0.lastFrameSequence.n ELSE 0
        d1 == [framesReceived |-> d0.framesReceived + 1,
               samplesReceived |-> d0.samplesReceived + samplesCount,
               lastFrameSequence |-> frameSeq,
               droppedFrames |-> d0.droppedFrames + dropped]
    IN  [st EXCEPT !.framesReceived = @ + 1,
                   !.samplesReceived = @ + samplesCount,
                   !.lastReceiveTime = Num(time),
                   !.droppedFrames = @ + dropped,
                   !.devices = [devs0 EXCEPT ![deviceId] = d1]]

\* variant: the difference to the expected number is added whatever its sign
UpdateStatsSignedGap(st, deviceId, frameSeq, samplesCount, time) ==
    LET devs0 == IF deviceId \in DOMAIN st.devices
                 THEN st.devices
                 ELSE st.devices @@ (deviceId :> NewDeviceStats)
        d0 == devs0[deviceId]
        expectedSeq == JsPlus1(d0.lastFrameSequence)
        gap == d0.lastFrameSequence # Num(-1) /\ IsNum(frameSeq) /\ IsNum(expectedSeq)
        dropped == IF gap THEN frameSeq.n - expectedSeq.n ELSE 0
        d1 == [framesReceived |-> d0.framesReceived + 1,
               samplesReceived |-> d0.samplesReceived + samplesCount,
               lastFrameSequence |-> frameSeq,
               droppedFrames |-> d0.droppedFrames + dropped]
    IN  [st EXCEPT !.framesReceived = @ + 1,
                   !.samplesReceived = @ + samplesCount,
                   !.lastReceiveTime = Num(time),
                   !.droppedFrames = @ + dropped,
                   !.devices = [devs0 EXCEPT ![deviceId] = d1]]

\* variant: lastFrameSequence only moves forward
UpdateStatsKeepsMax(st, deviceId, frameSeq, samplesCount, time) ==
    LET devs0 == IF deviceId \in DOMAIN st.devices
                 THEN st.devices
                 ELSE st.devices @@ (deviceId :> NewDeviceStats)
        d0 == devs0[deviceId]
        expectedSeq == JsPlus1(d0.lastFrameSequence)
        gap == d0.lastFrameSequence # Num(-1) /\ JsGt(frameSeq, expectedSeq)
        dropped == IF gap THEN frameSeq.n - expectedSeq.n ELSE 0
        d1 == [framesReceived |-> d0.framesReceived + 1,
               samplesReceived |-> d0.samplesReceived + samplesCount,
               lastFrameSequence |-> IF JsGt(d0.lastFrameSequence, frameSeq)
                                     THEN d0.lastFrameSequence ELSE frameSeq,
               droppedFrames |-> d0.droppedFrames + dropped]
    IN  [st EXCEPT !.framesReceived = @ + 1,
                   !.samplesReceived = @ + samplesCount,
                   !.lastReceiveTime = Num(time),
                   !.droppedFrames = @ + dropped,
                   !.devices = [devs0 EXCEPT ![deviceId] = d1]]

\* variant: a gap found for one device is added to every device's droppedFrames
UpdateStatsGapToAll(st, deviceId, frameSeq, samplesCount, time) ==
    LET devs0 == IF deviceId \in DOMAIN st.devices
                 THEN st.devices
                 ELSE st.devices @@ (deviceId :> NewDeviceStats)
        d0 == devs0[deviceId]
        expectedSeq == JsPlus1(d0.lastFrameSequence)
        gap == d0.lastFrameSequence # Num(-1) /\ JsGt(frameSeq, expectedSeq)
        dropped == IF gap THEN frameSeq.n - expectedSeq.n ELSE 0
        d1 == [framesReceived |-> d0.framesReceived + 1,
               samplesReceived |-> d0.samplesReceived + samplesCount,
               lastFrameSequence |-> frameSeq,
               droppedFrames |-> d0.droppedFrames]
        devs1 == [devs0 EXCEPT ![deviceId] = d1]
    IN  [st EXCEPT !.framesReceived = @ + 1,
                   !.samplesReceived = @ + samplesCount,
                   !.lastReceiveTime = Num(time),
                   !.droppedFrames = @ + dropped,
                   !.devices = [d \in DOMAIN devs1 |->
                                  [devs1[d] EXCEPT !.droppedFrames = @ + dropped]]]

UpdateStats(st, deviceId, frameSeq, samplesCount, time) ==
    LET inherited == IsInherited(st.devices, deviceId)
        devs0 == IF deviceId \in DOMAIN st.devices \/ inherited
                 THEN st.devices
                 ELSE st.devices @@ (deviceId :> NewDeviceStats)
        \* line 81: the entry, or the built-in function found up the chain
        last0 == IF inherited THEN builtins[deviceId]
                 ELSE devs0[deviceId].lastFrameSequence
        expectedSeq == JsPlus1(last0)
        gap == last0 # Num(-1) /\ JsGt(frameSeq, expectedSeq)
        dropped == IF gap THEN frameSeq.n - expectedSeq.n ELSE 0
        d0 == devs0[deviceId]
        d1 == [framesReceived |-> d0.framesReceived + 1,
               samplesReceived |-> d0.samplesReceived + samplesCount,
               lastFrameSequence |-> frameSeq,
               droppedFrames |-> d0.droppedFrames + dropped]
    IN  [st EXCEPT !.framesReceived = @ + 1,
                   !.samplesReceived = @ + samplesCount,
                   !.lastReceiveTime = Num(time),
                   !.droppedFrames = @ + dropped,
                   \* lines 82-95 write through deviceStats: to the entry,
                   \* or to the built-in function, which is no part of stats
                   !.devices = IF inherited THEN devs0
                               ELSE [devs0 EXCEPT ![deviceId] = d1]]

\* variant: never evicts
StoreFrameNoShift(frames, frame) == Append(frames, frame)

\* variant: at capacity the newest entry is removed (pop) instead of the oldest
StoreFramePops(frames, frame) ==
    LET pushed == Append(frames, frame)
    IN  IF Len(pushed) > MAX_STORED_FRAMES
        THEN SubSeq(pushed, 1, Len(pushed) - 1) ELSE pushed

\* lines 104-109: push, then shift once when over capacity
StoreFrame(frames, frame) ==
    LET pushed == Append(frames, frame)
    IN  IF Len(pushed) > MAX_STORED_FRAMES THEN Tail(pushed) ELSE pushed

\* lines 62-64
DeviceIdOf(frameData) ==
    IF Has(frameData, "deviceId") THEN frameData.deviceId ELSE "unknown"
\* variant: the collector numbers the frames from 1
FrameSeqOfRenumbered(frameData) ==
    IF Has(frameData, "frameSequence") THEN Num(frameData.frameSequence + 1) ELSE Undefined

FrameSeqOf(frameData) ==
    IF Has(frameData, "frameSequence") THEN Num(frameData.frameSequence) ELSE Undefined
SamplesCountOf(frameData) ==
    IF Has(frameData, "samplesInFrame") THEN frameData.samplesInFrame ELSE 0

\* lines 132-138
ErrorResponse == [status |-> 500, success |-> FALSE, message |-> "Error processing data"]

\* lines 115-123
FrameMessage(frameData, st) ==
    [type |-> "frame", data |-> frameData,
     stats |-> [totalFrames |-> st.framesReceived,
                totalSamples |-> st.samplesReceived,
                droppedFrames |-> st.droppedFrames]]

\* variant: the counters are updated before the body is read
EmgThrowsAfterCount(req) ==
    /\ ~Has(req, "body")
    /\ stats' = [stats EXCEPT !.framesReceived = @ + 1]
    /\ lastOp' = [op |-> "emg", req |-> req, res |-> ErrorResponse,
                  bcast |-> NoBroadcast, storeAtBroadcast |-> <<>>, fail |-> {}]
    /\ UNCHANGED <<clients, readyState, recentFrames, now, arrivals, builtins, seqLog,
                   firstReceived>>

\* req.body is undefined: reading frameData.deviceId (line 62) throws before
\* any counter is touched, and the catch block answers.
EmgThrows(req) ==
    /\ ~Has(req, "body")
    /\ lastOp' = [op |-> "emg", req |-> req, res |-> ErrorResponse,
                  bcast |-> NoBroadcast, storeAtBroadcast |-> <<>>, fail |-> {}]
    /\ UNCHANGED <<clients, readyState, stats, recentFrames, now, arrivals, builtins, seqLog,
                   firstReceived>>

EmgAccepts(req) ==
    /\ Has(req, "body")
    /\ \E fail \in SUBSET OpenClients :
        LET frameData == req.body
            deviceId == DeviceIdOf(frameData)
            frameSeq == FrameSeqOf(frameData)
            samplesCount == SamplesCountOf(frameData)
            stats1 == UpdateStats(stats, deviceId, frameSeq, samplesCount, now)
            \* lines 98-102; arrival is a history tag, not a property of the frame
            frameWithTimestamp ==
                [receivedAt |-> now, serverTimestamp |-> now, arrival |-> arrivals + 1]
                    @@ frameData
            frames1 == StoreFrame(recentFrames, frameWithTimestamp)
            b == broadcast(clients, readyState, FrameMessage(frameData, stats1), fail)
        IN  /\ stats' = stats1
            /\ recentFrames' = frames1
            /\ arrivals' = arrivals + 1
            /\ seqLog' = IF deviceId \in DOMAIN seqLog
                         THEN [seqLog EXCEPT ![deviceId] = Append(@, frameSeq)]
                         ELSE seqLog @@ (deviceId :> <<frameSeq>>)
            /\ lastOp' = [op |-> "emg", req |-> req,
                          res |-> IF b.threw THEN ErrorResponse
                                  ELSE [status |-> 200, success |-> TRUE,
                                        frameSequence |-> frameSeq,
                                        samplesReceived |-> samplesCount],
                          bcast |-> b, storeAtBroadcast |-> frames1, fail |-> fail]
            /\ firstReceived' = Receive(firstReceived, b)
            \* line 95, when deviceStats is a built-in function
            /\ builtins' = IF IsInherited(stats.devices, deviceId)
                           THEN [builtins EXCEPT ![deviceId] = frameSeq]
                           ELSE builtins
            /\ UNCHANGED <<clients, readyState, now>>

PostEmg(req) ==
    /\ nIngest < MaxIngest
    /\ nIngest' = nIngest + 1
    /\ (EmgThrows(req) \/ EmgAccepts(req))

(***************************************************************************)
(* GET /api/frames/latest: server.js:166-195.  Read-only; query is the     *)
(* parsed query string.                                                    *)
(***************************************************************************)
NoQuery == <<>>

FramesLatest(query) ==
    LET matching ==
            IF Has(query, "deviceId")
            THEN {i \in DOMAIN recentFrames :
                    /\ Has(recentFrames[i], "deviceId")
                    /\ recentFrames[i].deviceId = query.deviceId}
            ELSE DOMAIN recentFrames
    IN  IF matching = {}
        THEN [status |-> 404, success |-> FALSE, message |-> "No frames available"]
        ELSE [status |-> 200, success |-> TRUE,
              frame |-> recentFrames[CHOOSE i \in matching : \A j \in matching : j <= i]]

(***************************************************************************)
(* The other queries: server.js:143-163, 198-248, 263-272.  A query string *)
(* is a record of texts; a parameter that was not given is a missing       *)
(* field.                                                                  *)
(***************************************************************************)
\* parseInt on the texts the queries use; "abc" has no leading digits
ParseInt(text) ==
    CASE text = "-1" -> Num(-1)
      [] text = "0" -> Num(0)
      [] text = "1" -> Num(1)
      [] text = "2" -> Num(2)
      [] text = "3" -> Num(3)
      [] OTHER -> NaN

\* new Date(text).getTime() on the texts the queries use: "T0", "T1", ...
\* are the ISO texts of the clock values 0, 1, ..., anything else is an
\* invalid date
DateGetTime(text) ==
    CASE text = "T0" -> Num(0)
      [] text = "T1" -> Num(1)
      [] text = "T2" -> Num(2)
      [] OTHER -> NaN

\* a || b for a number a: NaN and 0 are falsy
JsOr(a, b) == IF IsNum(a) /\ a.n # 0 THEN a.n ELSE b

\* if (deviceId): the parameter is present and not the empty text
DeviceGiven(query) == Has(query, "deviceId") /\ query.deviceId # ""

\* f.deviceId === deviceId
FromDevice(f, deviceId) == Has(f, "deviceId") /\ f.deviceId = deviceId

\* frames.filter(f => f.deviceId === deviceId), when deviceId is given
FilterByDevice(frames, query) ==
    IF DeviceGiven(query)
    THEN SelectSeq(frames, LAMBDA f : FromDevice(f, query.deviceId))
    ELSE frames

\* Array.prototype.slice(start) for an integer start
Slice(frames, start) ==
    LET len == Len(frames)
        from == IF start < 0
                THEN (IF len + start < 0 THEN 0 ELSE len + start)
                ELSE (IF start > len THEN len ELSE start)
    IN  SubSeq(frames, from + 1, len)

\* GET /api/frames: lines 143-163
FramesList(query) ==
    LET limit == JsOr(IF Has(query, "limit") THEN ParseInt(query.limit) ELSE NaN,
                      Len(recentFrames))
        frames == FilterByDevice(recentFrames, query)
        result == Slice(frames, -limit)
    IN  [status |-> 200, success |-> TRUE, count |-> Len(result),
         totalStored |-> Len(recentFrames), frames |-> result]

\* a >= b and a <= b for a number a: false when b is NaN
JsGe(a, b) == IsNum(b) /\ a >= b.n
JsLe(a, b) == IsNum(b) /\ a <= b.n

\* GET /api/frames/range: lines 198-220
FramesRange(query) ==
    LET startTime == IF Has(query, "start") /\ query.start # ""
                     THEN DateGetTime(query.start) ELSE Num(0)
        endTime == IF Has(query, "end") /\ query.end # ""
                   THEN DateGetTime(query.end) ELSE Num(now)
        inRange == SelectSeq(recentFrames,
                       LAMBDA f : JsGe(f.serverTimestamp, startTime)
                                    /\ JsLe(f.serverTimestamp, endTime))
        frames == FilterByDevice(inRange, query)
    IN  [status |-> 200, success |-> TRUE, count |-> Len(frames), frames |-> frames]

\* variant: the newest matching frame is returned
FrameBySequenceLast(sequence, query) ==
    LET wanted == ParseInt(sequence)
        matching == {i \in DOMAIN recentFrames :
                       /\ Has(recentFrames[i], "frameSequence")
                       /\ Num(recentFrames[i].frameSequence) = wanted
                       /\ DeviceGiven(query) =>
                             FromDevice(recentFrames[i], query.deviceId)}
    IN  IF matching = {}
        THEN [status |-> 404, success |-> FALSE, sequence |-> wanted]
        ELSE [status |-> 200, success |-> TRUE,
              frame |-> recentFrames[CHOOSE i \in matching : \A j \in matching : j <= i]]

\* GET /api/frames/:sequence: lines 223-248; find returns the first match
FrameBySequence(sequence, query) ==
    LET wanted == ParseInt(sequence)
        matching == {i \in DOMAIN recentFrames :
                       /\ Has(recentFrames[i], "frameSequence")
                       /\ Num(recentFrames[i].frameSequence) = wanted
                       /\ DeviceGiven(query) =>
                             FromDevice(recentFrames[i], query.deviceId)}
    IN  IF matching = {}
        THEN [status |-> 404, success |-> FALSE, sequence |-> wanted]
        ELSE [status |-> 200, success |-> TRUE,
              frame |-> recentFrames[CHOOSE i \in matching : \A j \in matching : i <= j]]

\* GET /api/status: lines 263-272
Status ==
    [status |-> 200, connectedClients |-> Len(clients), stats |-> stats,
     storedFrames |-> Len(recentFrames), maxStoredFrames |-> MAX_STORED_FRAMES,
     timestamp |-> now]

\* variant: answering removes the oldest stored frame
AnswerConsumes(op, req, res) ==
    /\ lastOp' = [op |-> op, req |-> req, res |-> res, bcast |-> NoBroadcast,
                  storeAtBroadcast |-> <<>>, fail |-> {}]
    /\ recentFrames' = IF recentFrames = <<>> THEN recentFrames ELSE Tail(recentFrames)
    /\ UNCHANGED <<clients, readyState, stats, now, arrivals, builtins, seqLog,
                   nIngest, firstReceived>>

\* a query handler answers and touches nothing else
Answer(op, req, res) ==
    /\ lastOp' = [op |-> op, req |-> req, res |-> res, bcast |-> NoBroadcast,
                  storeAtBroadcast |-> <<>>, fail |-> {}]
    /\ UNCHANGED <<clients, readyState, stats, recentFrames, now, arrivals, builtins, seqLog,
                   nIngest, firstReceived>>

GetFrames(query) == Answer("frames", [url |-> "/api/frames", query |-> query],
                           FramesList(query))
GetLatest(query) == Answer("latest", [url |-> "/api/frames/latest", query |-> query],
                           FramesLatest(query))
GetRange(query) == Answer("range", [url |-> "/api/frames/range", query |-> query],
                          FramesRange(query))
GetSequence(sequence, query) ==
    Answer("sequence", [url |-> "/api/frames/:sequence", sequence |-> sequence,
                        query |-> query],
           FrameBySequence(sequence, query))
GetStatus == Answer("status", [url |-> "/api/status"], Status)

(***************************************************************************)
(* DELETE /api/frames: server.js:251-260                                   *)
(***************************************************************************)
\* variant: the per-device entries are dropped with the frames
DeleteFramesForgetsDevices ==
    /\ recentFrames' = <<>>
    /\ arrivals' = 0
    /\ stats' = [stats EXCEPT !.devices = <<>>]
    /\ lastOp' = [op |-> "delete", req |-> [url |-> "/api/frames"],
                  res |-> [status |-> 200, success |-> TRUE,
                           deletedCount |-> Len(recentFrames)],
                  bcast |-> NoBroadcast, storeAtBroadcast |-> <<>>, fail |-> {}]
    /\ UNCHANGED <<clients, readyState, now, builtins, seqLog, nIngest, firstReceived>>

DeleteFrames ==
    /\ recentFrames' = <<>>
    /\ arrivals' = 0
    /\ lastOp' = [op |-> "delete", req |-> [url |-> "/api/frames"],
                  res |-> [status |-> 200, success |-> TRUE,
                           deletedCount |-> Len(recentFrames)],
                  bcast |-> NoBroadcast, storeAtBroadcast |-> <<>>, fail |-> {}]
    /\ UNCHANGED <<clients, readyState, stats, now, builtins, seqLog, nIngest, firstReceived>>

(***************************************************************************)
(* POST /api/reset: server.js:275-296                                      *)
(***************************************************************************)
\* variant: the store is emptied whatever the query says
PostResetAlwaysClears(clearFrames) ==
    \E fail \in SUBSET OpenClients :
        /\ stats' = InitialStats
        /\ seqLog' = <<>>
        /\ recentFrames' = <<>>
        /\ arrivals' = 0
        /\ lastOp' = [op |-> "reset",
                      req |-> [url |-> "/api/reset", clearFrames |-> clearFrames],
                      res |-> [status |-> 200, success |-> TRUE,
                               framesCleared |-> clearFrames],
                      bcast |-> broadcast(clients, readyState, [type |-> "reset"], fail),
                      storeAtBroadcast |-> recentFrames', fail |-> fail]
        /\ firstReceived' = Receive(firstReceived, lastOp'.bcast)
        /\ UNCHANGED <<clients, readyState, now, builtins, nIngest>>

\* clearFrames is req.query.clearFrames === 'true'
PostReset(clearFrames) ==
    \E fail \in SUBSET OpenClients :
        /\ stats' = InitialStats
        /\ seqLog' = <<>>
        /\ recentFrames' = IF clearFrames THEN <<>> ELSE recentFrames
        /\ arrivals' = IF clearFrames THEN 0 ELSE arrivals
        /\ lastOp' = [op |-> "reset",
                      req |-> [url |-> "/api/reset", clearFrames |-> clearFrames],
                      res |-> [status |-> 200, success |-> TRUE,
                               framesCleared |-> clearFrames],
                      bcast |-> broadcast(clients, readyState, [type |-> "reset"], fail),
                      storeAtBroadcast |-> recentFrames', fail |-> fail]
        /\ firstReceived' = Receive(firstReceived, lastOp'.bcast)
        /\ UNCHANGED <<clients, readyState, now, builtins, nIngest>>

(***************************************************************************)
(* WebSocket events: server.js:31-56                                       *)
(***************************************************************************)
\* variant: the new client is registered but no snapshot is sent to it
ConnectionNoSnapshot(ws) ==
    /\ ws \notin Range(clients)
    /\ clients' = Append(clients, ws)
    /\ readyState' = [readyState EXCEPT ![ws] = "OPEN"]
    /\ lastOp' = [op |-> "connection", req |-> [ws |-> ws], res |-> NoResponse,
                  bcast |-> NoBroadcast, storeAtBroadcast |-> recentFrames, fail |-> {}]
    /\ UNCHANGED <<stats, recentFrames, now, arrivals, builtins, seqLog, nIngest, firstReceived>>

\* 'connection': lines 31-36
Connection(ws) ==
    /\ ws \notin Range(clients)
    /\ clients' = Append(clients, ws)
    /\ readyState' = [readyState EXCEPT ![ws] = "OPEN"]
    /\ lastOp' = [op |-> "connection", req |-> [ws |-> ws], res |-> NoResponse,
                  bcast |-> [msg |-> [type |-> "stats", data |-> stats],
                             attempted |-> {ws}, delivered |-> {ws}, threw |-> FALSE],
                  storeAtBroadcast |-> recentFrames, fail |-> {}]
    /\ firstReceived' = Receive(firstReceived, lastOp'.bcast)
    /\ UNCHANGED <<stats, recentFrames, now, arrivals, builtins, seqLog, nIngest>>

\* variant: the message is relayed to the other clients only
OnMessageSkipsSender(ws, parses) ==
    /\ ws \in Range(clients)
    /\ readyState[ws] = "OPEN"
    /\ \E fail \in SUBSET OpenClients :
        lastOp' = [op |-> "message", req |-> [ws |-> ws, parses |-> parses],
                   res |-> NoResponse,
                   bcast |-> IF parses
                             THEN broadcast(SelectSeq(clients, LAMBDA c : c # ws),
                                            readyState, [type |-> "data"], fail)
                             ELSE NoBroadcast,
                   storeAtBroadcast |-> recentFrames, fail |-> fail]
    /\ firstReceived' = Receive(firstReceived, lastOp'.bcast)
    /\ UNCHANGED <<clients, readyState, stats, recentFrames, now, arrivals,
                   builtins, seqLog, nIngest>>

\* 'message': lines 38-46; parses is whether JSON.parse succeeds
OnMessage(ws, parses) ==
    /\ ws \in Range(clients)
    /\ readyState[ws] = "OPEN"
    /\ \E fail \in SUBSET OpenClients :
        lastOp' = [op |-> "message", req |-> [ws |-> ws, parses |-> parses],
                   res |-> NoResponse,
                   bcast |-> IF parses
                             THEN broadcast(clients, readyState,
                                            [type |-> "data"], fail)
                             ELSE NoBroadcast,
                   storeAtBroadcast |-> recentFrames, fail |-> fail]
    /\ firstReceived' = Receive(firstReceived, lastOp'.bcast)
    /\ UNCHANGED <<clients, readyState, stats, recentFrames, now, arrivals,
                   builtins, seqLog, nIngest, firstReceived>>

\* the socket starts closing: the ws library moves readyState away from OPEN
\* before the 'close' event is delivered
SocketClosing(ws) ==
    /\ ws \in Range(clients)
    /\ readyState[ws] = "OPEN"
    /\ readyState' = [readyState EXCEPT ![ws] = "CLOSING"]
    /\ UNCHANGED <<clients, stats, recentFrames, now, arrivals, builtins, seqLog, nIngest,
                   firstReceived, lastOp>>

\* 'close': lines 48-51
OnClose(ws) ==
    /\ ws \in Range(clients)
    /\ clients' = SelectSeq(clients, LAMBDA client : client # ws)
    /\ readyState' = [readyState EXCEPT ![ws] = "NONE"]
    /\ lastOp' = [op |-> "close", req |-> [ws |-> ws], res |-> NoResponse,
                  bcast |-> NoBroadcast, storeAtBroadcast |-> <<>>, fail |-> {}]
    /\ firstReceived' = [firstReceived EXCEPT ![ws] = "none"]
    /\ UNCHANGED <<stats, recentFrames, now, arrivals, builtins, seqLog, nIngest>>

\* 'error': lines 53-55, logs only
OnError(ws) ==
    /\ ws \in Range(clients)
    /\ lastOp' = [op |-> "error", req |-> [ws |-> ws], res |-> NoResponse,
                  bcast |-> NoBroadcast, storeAtBroadcast |-> <<>>, fail |-> {}]
    /\ UNCHANGED <<clients, readyState, stats, recentFrames, now, arrivals,
                   builtins, seqLog, nIngest, firstReceived>>

\* the wall clock advances
Tick ==
    /\ now < MaxNow
    /\ now' = now + 1
    /\ UNCHANGED <<clients, readyState, stats, recentFrames, arrivals, builtins, seqLog,
                   nIngest, firstReceived, lastOp>>

(***************************************************************************)
(* Producer firmware: src/unnamed/part_000                                 *)
(*                                                                         *)
(* mcu holds the globals.  emaValue is a float in the source; here it is   *)
(* the exact fraction n/d in lowest terms, so the rounding of float        *)
(* arithmetic is not represented.  lastSampleTime, lastFrameSendTime and   *)
(* lastStatsTime only decide when a pass samples or reports; the pass      *)
(* takes those decisions as the inputs due and report.                     *)
(***************************************************************************)
RECURSIVE GCD(_, _)
GCD(a, b) == IF b = 0 THEN a ELSE GCD(b, a % b)

Fraction(n, d) == LET g == GCD(n, d) IN [n |-> n \div g, d |-> d \div g]

\* variant: the weights are exchanged
EmaStepSwapped(average, emaValue) ==
    Fraction((ALPHA_DEN - ALPHA_NUM) * average * emaValue.d + ALPHA_NUM * emaValue.n,
             ALPHA_DEN * emaValue.d)

\* part_000:215: alpha * average + (1 - alpha) * emaValue
EmaStep(average, emaValue) ==
    Fraction(ALPHA_NUM * average * emaValue.d + (ALPHA_DEN - ALPHA_NUM) * emaValue.n,
             ALPHA_DEN * emaValue.d)

\* part_000:216: (int)emaValue, for a value that is never negative
Truncate(emaValue) == emaValue.n \div emaValue.d

\* variant: negative values pass
ClampForgotten(v) == v

\* part_000:184-185 and 190-191: if (x < 0) x = 0
Clamp0(v) == IF v < 0 THEN 0 ELSE v

RECURSIVE SumUpTo(_, _)
SumUpTo(arr, i) == IF i < 0 THEN 0 ELSE arr[i] + SumUpTo(arr, i - 1)

ZeroSample == [timestamp |-> 0, raw1 |-> 0, ema1 |-> 0, raw2 |-> 0, ema2 |-> 0]

\* part_000:32-74 and setup(), lines 81-111; connected is what setupWiFi found
McuInit(connected) ==
    [frameBuffer |-> [i \in 0..(SAMPLES_PER_FRAME - 1) |-> ZeroSample],
     bufferIndex |-> 0,
     frameSequence |-> 0,
     baseline1 |-> 0, baseline2 |-> 0,
     baselineCalibrated |-> FALSE,
     calibrationCount |-> 0,
     calibrationSum1 |-> 0, calibrationSum2 |-> 0,
     dataArray1 |-> [i \in 0..(ARRAY_SIZE - 1) |-> 0],
     dataArray2 |-> [i \in 0..(ARRAY_SIZE - 1) |-> 0],
     arrayIndex1 |-> 0, arrayIndex2 |-> 0,
     arrayFull1 |-> FALSE, arrayFull2 |-> FALSE,
     emaValue1 |-> [n |-> 0, d |-> 1], emaValue2 |-> [n |-> 0, d |-> 1],
     wifiConnected |-> connected,
     samplesCollected |-> 0,
     framesSent |-> 0]

ProducerInit ==
    /\ link \in BOOLEAN
    /\ mcu = McuInit(link)
    /\ ticks = 0
    /\ readLog = <<>>
    /\ discarded = {}
    /\ emitted = <<>>
    /\ handed = <<>>
    /\ lastSend = [called |-> FALSE]

Init == CollectorInit /\ ProducerInit

\* A reading r is what one sampling tick reads: the two ADC values raw1, raw2
\* and what the two EMGFilters objects return for them, out1, out2 (an
\* external library, any integer).
HttpCodes == {200, 500, -1}

\* variant: the reading of the tick that completes calibration is averaged
\* in as well
calibrateCountsLastTick(p, r) ==
    IF p.calibrationCount < CALIBRATION_SAMPLES
    THEN [p EXCEPT !.calibrationSum1 = @ + r.raw1,
                   !.calibrationSum2 = @ + r.raw2,
                   !.calibrationCount = @ + 1]
    ELSE [p EXCEPT !.baseline1 = (p.calibrationSum1 + r.raw1) \div (CALIBRATION_SAMPLES + 1),
                   !.baseline2 = (p.calibrationSum2 + r.raw2) \div (CALIBRATION_SAMPLES + 1),
                   !.baselineCalibrated = TRUE]

\* variant: the baselines are computed on the tick that accumulates the
\* last calibration reading
calibrateOnReachingK(p, r) ==
    IF p.calibrationCount + 1 < CALIBRATION_SAMPLES
    THEN [p EXCEPT !.calibrationSum1 = @ + r.raw1,
                   !.calibrationSum2 = @ + r.raw2,
                   !.calibrationCount = @ + 1]
    ELSE [p EXCEPT !.calibrationSum1 = @ + r.raw1,
                   !.calibrationSum2 = @ + r.raw2,
                   !.calibrationCount = @ + 1,
                   !.baseline1 = (p.calibrationSum1 + r.raw1) \div CALIBRATION_SAMPLES,
                   !.baseline2 = (p.calibrationSum2 + r.raw2) \div CALIBRATION_SAMPLES,
                   !.baselineCalibrated = TRUE]

\* part_000:120-146, the calibration branch of loop()
calibrate(p, r) ==
    IF p.calibrationCount < CALIBRATION_SAMPLES
    THEN [p EXCEPT !.calibrationSum1 = @ + r.raw1,
                   !.calibrationSum2 = @ + r.raw2,
                   !.calibrationCount = @ + 1]
    ELSE [p EXCEPT !.baseline1 = p.calibrationSum1 \div CALIBRATION_SAMPLES,
                   !.baseline2 = p.calibrationSum2 \div CALIBRATION_SAMPLES,
                   !.baselineCalibrated = TRUE]

\* variant: the fill flag is tested before the cursor wraps, so the sample
\* that fills the ring still reports 0
MovingAverageLateFlag(dataArray, arrayIndex, arrayFull, emaValue, filtered) ==
    LET arr == [dataArray EXCEPT ![arrayIndex] = filtered]
        wrapped == arrayIndex + 1 >= ARRAY_SIZE
        average == SumUpTo(arr, ARRAY_SIZE - 1) \div ARRAY_SIZE
        ema == IF arrayFull THEN EmaStep(average, emaValue) ELSE emaValue
    IN  [dataArray |-> arr,
         arrayIndex |-> IF wrapped THEN 0 ELSE arrayIndex + 1,
         arrayFull |-> arrayFull \/ wrapped,
         emaValue |-> ema,
         stableValue |-> IF arrayFull THEN Truncate(ema) ELSE 0]

\* part_000:193-217 (sensor 1) and 201-227 (sensor 2): ring write, cursor,
\* fill flag, mean of the ring, EMA
MovingAverage(dataArray, arrayIndex, arrayFull, emaValue, filtered) ==
    LET arr == [dataArray EXCEPT ![arrayIndex] = filtered]
        wrapped == arrayIndex + 1 >= ARRAY_SIZE
        full == arrayFull \/ wrapped
        average == SumUpTo(arr, ARRAY_SIZE - 1) \div ARRAY_SIZE
        ema == IF full THEN EmaStep(average, emaValue) ELSE emaValue
    IN  [dataArray |-> arr,
         arrayIndex |-> IF wrapped THEN 0 ELSE arrayIndex + 1,
         arrayFull |-> full,
         emaValue |-> ema,
         stableValue |-> IF full THEN Truncate(ema) ELSE 0]

\* variant: a sample taken while the buffer is full overwrites the last slot
collectSampleOverwrites(p, r, t) ==
    LET normalized1 == Clamp0(r.raw1 - p.baseline1)
        normalized2 == Clamp0(r.raw2 - p.baseline2)
        c1 == MovingAverage(p.dataArray1, p.arrayIndex1, p.arrayFull1, p.emaValue1,
                            Clamp0(r.out1))
        c2 == MovingAverage(p.dataArray2, p.arrayIndex2, p.arrayFull2, p.emaValue2,
                            Clamp0(r.out2))
        slot == IF p.bufferIndex < SAMPLES_PER_FRAME THEN p.bufferIndex
                ELSE SAMPLES_PER_FRAME - 1
        sample == [timestamp |-> t, raw1 |-> normalized1, ema1 |-> c1.stableValue,
                   raw2 |-> normalized2, ema2 |-> c2.stableValue]
    IN  [p EXCEPT !.dataArray1 = c1.dataArray, !.dataArray2 = c2.dataArray,
                  !.arrayIndex1 = c1.arrayIndex, !.arrayIndex2 = c2.arrayIndex,
                  !.arrayFull1 = c1.arrayFull, !.arrayFull2 = c2.arrayFull,
                  !.emaValue1 = c1.emaValue, !.emaValue2 = c2.emaValue,
                  !.frameBuffer = [@ EXCEPT ![slot] = sample],
                  !.bufferIndex = IF p.bufferIndex < SAMPLES_PER_FRAME THEN @ + 1 ELSE @,
                  !.samplesCollected = @ + 1]

\* variant: every sample is also averaged into the baseline
collectSampleReaverages(p, r, t) ==
    LET normalized1 == Clamp0(r.raw1 - p.baseline1)
        normalized2 == Clamp0(r.raw2 - p.baseline2)
        c1 == MovingAverage(p.dataArray1, p.arrayIndex1, p.arrayFull1, p.emaValue1,
                            Clamp0(r.out1))
        c2 == MovingAverage(p.dataArray2, p.arrayIndex2, p.arrayFull2, p.emaValue2,
                            Clamp0(r.out2))
        stored == p.bufferIndex < SAMPLES_PER_FRAME
        sample == [timestamp |-> t, raw1 |-> normalized1, ema1 |-> c1.stableValue,
                   raw2 |-> normalized2, ema2 |-> c2.stableValue]
    IN  [p EXCEPT !.dataArray1 = c1.dataArray, !.dataArray2 = c2.dataArray,
                  !.arrayIndex1 = c1.arrayIndex, !.arrayIndex2 = c2.arrayIndex,
                  !.arrayFull1 = c1.arrayFull, !.arrayFull2 = c2.arrayFull,
                  !.emaValue1 = c1.emaValue, !.emaValue2 = c2.emaValue,
                  !.frameBuffer = IF stored THEN [@ EXCEPT ![p.bufferIndex] = sample] ELSE @,
                  !.bufferIndex = IF stored THEN @ + 1 ELSE @,
                  !.samplesCollected = @ + 1,
                  !.calibrationSum1 = @ + r.raw1,
                  !.calibrationSum2 = @ + r.raw2,
                  !.calibrationCount = @ + 1,
                  !.baseline1 = (p.calibrationSum1 + r.raw1) \div (p.calibrationCount + 1),
                  !.baseline2 = (p.calibrationSum2 + r.raw2) \div (p.calibrationCount + 1)]

\* variant: a sample taken while the buffer is full starts the buffer over
collectSampleWraps(p, r, t) ==
    LET normalized1 == Clamp0(r.raw1 - p.baseline1)
        normalized2 == Clamp0(r.raw2 - p.baseline2)
        c1 == MovingAverage(p.dataArray1, p.arrayIndex1, p.arrayFull1, p.emaValue1,
                            Clamp0(r.out1))
        c2 == MovingAverage(p.dataArray2, p.arrayIndex2, p.arrayFull2, p.emaValue2,
                            Clamp0(r.out2))
        slot == IF p.bufferIndex < SAMPLES_PER_FRAME THEN p.bufferIndex ELSE 0
        sample == [timestamp |-> t, raw1 |-> normalized1, ema1 |-> c1.stableValue,
                   raw2 |-> normalized2, ema2 |-> c2.stableValue]
    IN  [p EXCEPT !.dataArray1 = c1.dataArray, !.dataArray2 = c2.dataArray,
                  !.arrayIndex1 = c1.arrayIndex, !.arrayIndex2 = c2.arrayIndex,
                  !.arrayFull1 = c1.arrayFull, !.arrayFull2 = c2.arrayFull,
                  !.emaValue1 = c1.emaValue, !.emaValue2 = c2.emaValue,
                  !.frameBuffer = [@ EXCEPT ![slot] = sample],
                  !.bufferIndex = slot + 1,
                  !.samplesCollected = @ + 1]

\* variant: a tick that finds the buffer full returns before conditioning
collectSampleSkipsWhenFull(p, r, t) ==
    IF ~(p.bufferIndex < SAMPLES_PER_FRAME)
    THEN [p EXCEPT !.samplesCollected = @ + 1]
    ELSE
    LET normalized1 == Clamp0(r.raw1 - p.baseline1)
        normalized2 == Clamp0(r.raw2 - p.baseline2)
        c1 == MovingAverage(p.dataArray1, p.arrayIndex1, p.arrayFull1, p.emaValue1,
                            Clamp0(r.out1))
        c2 == MovingAverage(p.dataArray2, p.arrayIndex2, p.arrayFull2, p.emaValue2,
                            Clamp0(r.out2))
        sample == [timestamp |-> t, raw1 |-> normalized1, ema1 |-> c1.stableValue,
                   raw2 |-> normalized2, ema2 |-> c2.stableValue]
    IN  [p EXCEPT !.dataArray1 = c1.dataArray, !.dataArray2 = c2.dataArray,
                  !.arrayIndex1 = c1.arrayIndex, !.arrayIndex2 = c2.arrayIndex,
                  !.arrayFull1 = c1.arrayFull, !.arrayFull2 = c2.arrayFull,
                  !.emaValue1 = c1.emaValue, !.emaValue2 = c2.emaValue,
                  !.frameBuffer = [@ EXCEPT ![p.bufferIndex] = sample],
                  !.bufferIndex = @ + 1,
                  !.samplesCollected = @ + 1]

\* part_000:176-240; r is the reading, t what micros() returns
collectSample(p, r, t) ==
    LET normalized1 == Clamp0(r.raw1 - p.baseline1)
        normalized2 == Clamp0(r.raw2 - p.baseline2)
        \* myFilter.update(normalized) returns r.out; lines 190-191 clamp it
        c1 == MovingAverage(p.dataArray1, p.arrayIndex1, p.arrayFull1, p.emaValue1,
                            Clamp0(r.out1))
        c2 == MovingAverage(p.dataArray2, p.arrayIndex2, p.arrayFull2, p.emaValue2,
                            Clamp0(r.out2))
        stored == p.bufferIndex < SAMPLES_PER_FRAME
        sample == [timestamp |-> t, raw1 |-> normalized1, ema1 |-> c1.stableValue,
                   raw2 |-> normalized2, ema2 |-> c2.stableValue]
    IN  [p EXCEPT !.dataArray1 = c1.dataArray, !.dataArray2 = c2.dataArray,
                  !.arrayIndex1 = c1.arrayIndex, !.arrayIndex2 = c2.arrayIndex,
                  !.arrayFull1 = c1.arrayFull, !.arrayFull2 = c2.arrayFull,
                  !.emaValue1 = c1.emaValue, !.emaValue2 = c2.emaValue,
                  !.frameBuffer = IF stored THEN [@ EXCEPT ![p.bufferIndex] = sample] ELSE @,
                  !.bufferIndex = IF stored THEN @ + 1 ELSE @,
                  !.samplesCollected = @ + 1]

\* variant: the samples are serialized newest first
FramePayloadNewestFirst(p, t) ==
    [deviceId |-> "ESP32_C6_001",
     frameSequence |-> p.frameSequence,
     samplingRate |-> 1000,
     samplesInFrame |-> p.bufferIndex,
     frameTimestamp |-> t,
     samples |-> [i \in 1..p.bufferIndex |->
                    [t |-> p.frameBuffer[p.bufferIndex - i].timestamp,
                     ch0 |-> [raw |-> p.frameBuffer[p.bufferIndex - i].raw1,
                              ema |-> p.frameBuffer[p.bufferIndex - i].ema1],
                     ch1 |-> [raw |-> p.frameBuffer[p.bufferIndex - i].raw2,
                              ema |-> p.frameBuffer[p.bufferIndex - i].ema2]]]]

\* part_000:261-282: the JSON document of one frame; t is what millis() returns
FramePayload(p, t) ==
    [deviceId |-> "ESP32_C6_001",
     frameSequence |-> p.frameSequence,
     samplingRate |-> 1000,
     samplesInFrame |-> p.bufferIndex,
     frameTimestamp |-> t,
     samples |-> [i \in 1..p.bufferIndex |->
                    [t |-> p.frameBuffer[i - 1].timestamp,
                     ch0 |-> [raw |-> p.frameBuffer[i - 1].raw1,
                              ema |-> p.frameBuffer[i - 1].ema1],
                     ch1 |-> [raw |-> p.frameBuffer[i - 1].raw2,
                              ema |-> p.frameBuffer[i - 1].ema2]]]]

\* variant: the sequence number is only advanced when the server answers 200
sendFrameToServerSeqOnOk(p, linkUp, reconnects, httpCode) ==
    IF ~linkUp
    THEN IF p.wifiConnected THEN [p EXCEPT !.wifiConnected = reconnects] ELSE p
    ELSE [p EXCEPT !.frameSequence = IF httpCode = 200 THEN @ + 1 ELSE @,
                   !.framesSent = IF httpCode = 200 THEN @ + 1 ELSE @]

\* variant: after an unreachable server the same sequence number is used
\* again
sendFrameToServerReusesSequence(p, linkUp, reconnects, httpCode) ==
    IF ~linkUp
    THEN IF p.wifiConnected THEN [p EXCEPT !.wifiConnected = reconnects] ELSE p
    ELSE [p EXCEPT !.frameSequence = IF httpCode = -1 THEN @ ELSE @ + 1,
                   !.framesSent = IF httpCode = 200 THEN @ + 1 ELSE @]

\* variant: a POST that is not answered 200 marks the link as down
sendFrameToServerMarksDownOnFail(p, linkUp, reconnects, httpCode) ==
    IF ~linkUp
    THEN IF p.wifiConnected THEN [p EXCEPT !.wifiConnected = reconnects] ELSE p
    ELSE [p EXCEPT !.frameSequence = @ + 1,
                   !.framesSent = IF httpCode = 200 THEN @ + 1 ELSE @,
                   !.wifiConnected = (httpCode = 200)]

\* part_000:243-303.  linkUp is WiFi.status() == WL_CONNECTED on entry,
\* reconnects is what setupWiFi (lines 306-327) finds after waiting, httpCode
\* is the result of http.POST.
sendFrameToServer(p, linkUp, reconnects, httpCode) ==
    IF ~linkUp
    THEN IF p.wifiConnected THEN [p EXCEPT !.wifiConnected = reconnects] ELSE p
    ELSE [p EXCEPT !.frameSequence = @ + 1,
                   !.framesSent = IF httpCode = 200 THEN @ + 1 ELSE @]

\* variant: the buffer is not emptied after the send
ResetBufferForgotten(p) == p

\* part_000:156: the buffer is emptied whatever sendFrameToServer did
ResetBuffer(p) == [p EXCEPT !.bufferIndex = 0]

\* part_000:113-173, one pass of loop().  due: the sampling interval has
\* elapsed (line 117); report: five seconds have passed since the last
\* statistics print (line 161).  p1 is the state after the sampling branch,
\* p2 after the send branch.
Loop(due, r, reconnects, httpCode, report) ==
    /\ due => ticks < MaxTicks
    /\ LET t == IF due THEN ticks + 1 ELSE ticks
       IN \E p1 \in {IF ~due THEN mcu
                 ELSE IF ~mcu.baselineCalibrated THEN calibrate(mcu, r)
                 ELSE collectSample(mcu, r, t)} :
       LET sends == /\ p1.baselineCalibrated
                    /\ p1.wifiConnected
                    /\ p1.bufferIndex >= SAMPLES_PER_FRAME
       IN \E p2 \in {IF sends
                 THEN ResetBuffer(sendFrameToServer(p1, link, reconnects, httpCode))
                 ELSE p1} :
          \E payload \in {FramePayload(p1, t)} :
           /\ mcu' = IF p2.baselineCalibrated /\ report
                 THEN [p2 EXCEPT !.samplesCollected = 0, !.framesSent = 0]
                 ELSE p2
           /\ ticks' = t
           /\ readLog' = IF due THEN Append(readLog, r) ELSE readLog
           /\ link' = IF sends /\ ~link THEN reconnects ELSE link
           /\ discarded' = IF due /\ mcu.baselineCalibrated
                              /\ ~(mcu.bufferIndex < SAMPLES_PER_FRAME)
                           THEN discarded \cup {t} ELSE discarded
           /\ emitted' = IF sends /\ link
                         THEN Append(emitted,
                                [frameSequence |-> payload.frameSequence,
                                 samplesInFrame |-> payload.samplesInFrame,
                                 stamps |-> [i \in DOMAIN payload.samples |->
                                               payload.samples[i].t],
                                 httpCode |-> httpCode])
                         ELSE emitted
           /\ handed' = IF sends
                        THEN Append(handed,
                               [stamps |-> [i \in DOMAIN payload.samples |->
                                              payload.samples[i].t],
                                posted |-> link])
                        ELSE handed
           /\ lastSend' = IF ~sends THEN lastSend
                          ELSE IF link
                          THEN [called |-> TRUE, posted |-> TRUE, payload |-> payload,
                                httpCode |-> httpCode]
                          ELSE [called |-> TRUE, posted |-> FALSE]

\* one pass of loop() with the inputs that pass can read, the readings
\* drawn from R
LoopPass(R) ==
    \E due \in BOOLEAN, report \in BOOLEAN :
        \E r \in IF due THEN R ELSE {CHOOSE x \in R : TRUE} :
            \E reconnects \in IF link THEN {TRUE} ELSE BOOLEAN :
                \E httpCode \in IF link THEN HttpCodes ELSE {-1} :
                    Loop(due, r, reconnects, httpCode, report)

\* the access point goes away / the WiFi stack re-associates by itself
LinkDrops ==
    /\ link
    /\ link' = FALSE
    /\ UNCHANGED <<mcu, ticks, readLog, discarded, emitted, handed, lastSend>>

LinkReturns ==
    /\ ~link
    /\ link' = TRUE
    /\ UNCHANGED <<mcu, ticks, readLog, discarded, emitted, handed, lastSend>>

\* scheduling and link behaviour with the muscle at rest: every tick reads
\* the same values and the filters return 0
SteadyReadings == {[raw1 |-> 5, raw2 |-> 2, out1 |-> 0, out2 |-> 0]}

ProducerNext == LoopPass(SteadyReadings) \/ LinkDrops \/ LinkReturns

\* signal conditioning with the link up: every pass is a sampling tick with
\* one of these readings, every send is answered 200.  The raw values make
\* both exact and inexact means and readings below the baseline; the filter
\* outputs include negative values.
Readings ==
    { [raw1 |-> 10, raw2 |-> 3, out1 |-> 2, out2 |-> -1],
      [raw1 |-> 12, raw2 |-> 0, out1 |-> 4, out2 |-> 5],
      [raw1 |-> 15, raw2 |-> 7, out1 |-> 6, out2 |-> 0],
      [raw1 |-> 9, raw2 |-> 4, out1 |-> -3, out2 |-> 9] }

ConditionerNext ==
    /\ ticks < MaxCondTicks
    /\ \E r \in Readings : Loop(TRUE, r, TRUE, 200, FALSE)

\* HTTP API of the collector with no observer connected
ApiNext ==
    \/ \E req \in EmgRequests : PostEmg(req)
    \/ DeleteFrames
    \/ \E clearFrames \in BOOLEAN : PostReset(clearFrames)
    \/ Tick

\* Ingestion of a few frames with observers connecting and disconnecting
FanoutRequests ==
    {[url |-> "/api/emg"]} \cup
    {[url |-> "/api/emg", body |-> b] :
        b \in {x \in WellFormed : x.deviceId = "D1" /\ x.frameSequence \in {0, MaxSeq}}}

FanoutNext ==
    \/ \E req \in FanoutRequests : PostEmg(req)
    \/ \E clearFrames \in BOOLEAN : PostReset(clearFrames)
    \/ \E ws \in WsIds : Connection(ws)
    \/ \E ws \in WsIds, parses \in BOOLEAN : OnMessage(ws, parses)
    \/ \E ws \in WsIds : SocketClosing(ws)
    \/ \E ws \in WsIds : OnClose(ws)
    \/ \E ws \in WsIds : OnError(ws)

\* the query strings
DeviceFilters == {<<>>, [deviceId |-> "D1"], [deviceId |-> "D2"]}
ListQueries ==
    DeviceFilters \cup
    {[limit |-> l] @@ d : l \in {"-1", "0", "1", "2", "3", "abc"}, d \in DeviceFilters}
RangeQueries ==
    {a @@ b @@ d : a \in {<<>>, [start |-> "T1"], [start |-> "bad"]},
                   b \in {<<>>, [end |-> "T0"]},
                   d \in {<<>>, [deviceId |-> "D1"]}}
SequenceTexts == {"0", "1", "abc"}

\* ingestion from two devices, one subscriber, and the queries; the handlers
\* run with a few of the query strings, the properties quantify over all
QueryRequests ==
    {[url |-> "/api/emg", body |-> b] :
        b \in {x \in WellFormed : x.frameSequence \in {0, 1}}
               \cup {x \in Malformed : ~Has(x, "deviceId") /\ Has(x, "frameSequence")}}

QueryNext ==
    \/ \E req \in QueryRequests : PostEmg(req)
    \/ DeleteFrames
    \/ \E clearFrames \in BOOLEAN : PostReset(clearFrames)
    \/ Tick
    \/ Connection(1)
    \/ OnClose(1)
    \/ \E query \in {<<>>, [limit |-> "1", deviceId |-> "D1"]} : GetFrames(query)
    \/ \E query \in {[deviceId |-> "D2"]} : GetLatest(query)
    \/ \E query \in {[start |-> "T1"]} : GetRange(query)
    \/ \E query \in {<<>>} : GetSequence("1", query)
    \/ GetStatus

\* Ingestion with device ids that name an inherited property of
\* stats.devices next to ordinary ones.
DeviceRequests ==
    {[url |-> "/api/emg",
      body |-> [deviceId |-> d, frameSequence |-> s, samplingRate |-> 1000,
                samplesInFrame |-> SAMPLES_PER_FRAME]] :
        d \in {"D1", "constructor"}, s \in {0, MaxSeq}}

DevicesNext ==
    \/ \E req \in DeviceRequests : PostEmg(req)
    \/ \E clearFrames \in BOOLEAN : PostReset(clearFrames)
    \/ Tick

\* Producer and collector together.  http.POST (part_000:287) blocks until
\* the collector has answered or the connection has failed, so a frame that
\* arrives is handled by POST /api/emg within the pass that sent it, and a
\* frame that is lost never arrives: nothing is reordered or duplicated.
Deliver(payload) == PostEmg([url |-> "/api/emg", body |-> payload])

Transfer(R) ==
    \E due \in BOOLEAN, report \in BOOLEAN :
        \E r \in IF due THEN R ELSE {CHOOSE x \in R : TRUE} :
            \E reconnects \in IF link THEN {TRUE} ELSE BOOLEAN :
                \E arrives \in IF link THEN BOOLEAN ELSE {FALSE} :
                    /\ Loop(due, r, reconnects, IF arrives THEN 200 ELSE -1, report)
                    /\ IF arrives /\ Len(emitted') > Len(emitted)
                       THEN Deliver(lastSend'.payload)
                       ELSE UNCHANGED collectorVars

EndToEndNext ==
    \/ Transfer(SteadyReadings)
    \/ LinkDrops /\ UNCHANGED collectorVars
    \/ LinkReturns /\ UNCHANGED collectorVars

\* the collector alone: the producer is left as booted, link up
InitCollector == Init /\ link

Spec == InitCollector /\ [][ApiNext /\ UNCHANGED producerVars]_vars

SpecFanout == InitCollector /\ [][FanoutNext /\ UNCHANGED producerVars]_vars

SpecQuery == InitCollector /\ [][QueryNext /\ UNCHANGED producerVars]_vars

SpecDevices == InitCollector /\ [][DevicesNext /\ UNCHANGED producerVars]_vars

SpecProducer == Init /\ [][ProducerNext /\ UNCHANGED collectorVars]_vars

\* loop() is called again and again for as long as the board runs
SpecProducerLive ==
    SpecProducer /\ WF_vars(LoopPass(SteadyReadings) /\ UNCHANGED collectorVars)

SpecConditioner == InitCollector /\ [][ConditionerNext /\ UNCHANGED collectorVars]_vars

SpecEndToEnd == Init /\ [][EndToEndNext]_vars

\* the same ticks, from a boot that found the access point or did not
SpecConditionerAnyLink == Init /\ [][ConditionerNext /\ UNCHANGED collectorVars]_vars

(***************************************************************************)
(* Properties of the producer                                              *)
(***************************************************************************)
Stamps(i) == {emitted[i].stamps[k] : k \in DOMAIN emitted[i].stamps}

\* C4: the first frame serialized carries frameSequence 0 and every later
\* one a frameSequence greater than all earlier ones, whatever the earlier
\* sends returned.
C4_SequenceStrictlyIncreasing ==
    /\ Len(emitted) > 0 => emitted[1].frameSequence = 0
    /\ \A i, j \in DOMAIN emitted :
          i < j => emitted[i].frameSequence < emitted[j].frameSequence

\* a frame was serialized after a send that failed and one that was rejected
C4_Witness ==
    /\ Len(emitted) >= 3
    /\ emitted[1].httpCode = -1
    /\ emitted[2].httpCode = 500
    /\ emitted[3].frameSequence = 2

BufferStamps == {mcu.frameBuffer[i].timestamp : i \in DOMAIN mcu.frameBuffer}

\* C5: bufferIndex stays within 0..SAMPLES_PER_FRAME; a sample collected
\* while the buffer is full leaves the buffer and bufferIndex as they were
\* and is not kept for a later frame.
C5_BufferBoundedAndDrops ==
    /\ mcu.bufferIndex \in 0..SAMPLES_PER_FRAME
    /\ (mcu.baselineCalibrated /\ mcu.bufferIndex = SAMPLES_PER_FRAME) =>
          \A r \in SteadyReadings :
              /\ collectSample(mcu, r, ticks + 1).frameBuffer = mcu.frameBuffer
              /\ collectSample(mcu, r, ticks + 1).bufferIndex = mcu.bufferIndex
    /\ discarded \cap BufferStamps = {}

\* two samples were taken while the buffer was full
C5_Witness ==
    /\ mcu.bufferIndex = SAMPLES_PER_FRAME
    /\ Cardinality(discarded) >= 2

\* C6: every emitted frame has at most SAMPLES_PER_FRAME samples, none of
\* them a sample collected while the buffer was full, and no sample is in
\* two emitted frames.
C6_FramesBoundedNoDuplicates ==
    /\ \A i \in DOMAIN emitted :
          /\ emitted[i].samplesInFrame <= SAMPLES_PER_FRAME
          /\ Len(emitted[i].stamps) <= SAMPLES_PER_FRAME
          /\ Cardinality(Stamps(i)) = Len(emitted[i].stamps)
          /\ Stamps(i) \cap discarded = {}
    /\ \A i, j \in DOMAIN emitted : i # j => Stamps(i) \cap Stamps(j) = {}

\* two frames went out, then samples were dropped on a full buffer
C6_Witness ==
    /\ Len(emitted) >= 2
    /\ discarded # {}

\* C13: calibration happens once: the baselines keep their initial value
\* until the step that sets baselineCalibrated, and from then on
\* baselineCalibrated stays true and the baselines, the calibration sums and
\* the calibration counter never change.
C13_BaselineComputedOnce ==
    [][/\ ~mcu'.baselineCalibrated => (mcu'.baseline1 = 0 /\ mcu'.baseline2 = 0)
       /\ mcu.baselineCalibrated =>
            /\ mcu'.baselineCalibrated
            /\ mcu'.baseline1 = mcu.baseline1
            /\ mcu'.baseline2 = mcu.baseline2
            /\ mcu'.calibrationSum1 = mcu.calibrationSum1
            /\ mcu'.calibrationSum2 = mcu.calibrationSum2
            /\ mcu'.calibrationCount = mcu.calibrationCount]_vars

\* samples were taken and a frame went out after calibration, and the sums
\* still hold the CALIBRATION_SAMPLES calibration readings only
C13_Witness ==
    /\ mcu.baselineCalibrated
    /\ Len(emitted) >= 1
    /\ Len(readLog) >= CALIBRATION_SAMPLES + 1 + SAMPLES_PER_FRAME
    /\ mcu.calibrationCount = CALIBRATION_SAMPLES
    /\ mcu.calibrationSum1 = readLog[1].raw1 + readLog[2].raw1
    /\ mcu.baseline1 = 5 /\ mcu.baseline2 = 2

\* the sum of field f over the first n readings taken
RECURSIVE SumOfReadings(_, _)
SumOfReadings(f, n) == IF n = 0 THEN 0 ELSE readLog[n][f] + SumOfReadings(f, n - 1)

\* C14 as stated: once calibrated, each baseline is the mean of the first
\* CALIBRATION_SAMPLES raw readings of its channel, that is
\* CALIBRATION_SAMPLES * baseline = sum of those readings.
C14_BaselineIsMean ==
    mcu.baselineCalibrated =>
        /\ CALIBRATION_SAMPLES * mcu.baseline1 = SumOfReadings("raw1", CALIBRATION_SAMPLES)
        /\ CALIBRATION_SAMPLES * mcu.baseline2 = SumOfReadings("raw2", CALIBRATION_SAMPLES)

\* C14 amended: once calibrated, each baseline is the integer quotient of
\* the sum of the first CALIBRATION_SAMPLES raw readings of its channel by
\* CALIBRATION_SAMPLES (the mean rounded down); later readings, the one of
\* the completing tick included, do not enter it.
C14_BaselineIsTruncatedMean ==
    mcu.baselineCalibrated =>
        /\ mcu.baseline1 = SumOfReadings("raw1", CALIBRATION_SAMPLES) \div CALIBRATION_SAMPLES
        /\ mcu.baseline2 = SumOfReadings("raw2", CALIBRATION_SAMPLES) \div CALIBRATION_SAMPLES

\* calibration readings 10 and 12 gave baseline 11, and the first sample
\* after calibration, raw reading 15, was buffered with raw_norm 4
C14_Witness ==
    /\ mcu.baselineCalibrated
    /\ Len(readLog) = CALIBRATION_SAMPLES + 2
    /\ readLog[1].raw1 = 10 /\ readLog[2].raw1 = 12
    /\ mcu.baseline1 = 11
    /\ readLog[CALIBRATION_SAMPLES + 2].raw1 = 15
    /\ mcu.frameBuffer[0].timestamp = CALIBRATION_SAMPLES + 2
    /\ mcu.frameBuffer[0].raw1 = 4

\* max(0, x), written independently of the code's clamp
Max0(x) == IF x > 0 THEN x ELSE 0

\* number of samples conditioned so far: the sampling ticks after the
\* CALIBRATION_SAMPLES accumulating ticks and the completing tick
Conditioned == Max0(Len(readLog) - (CALIBRATION_SAMPLES + 1))

\* the tick of the n-th conditioned sample
TickOfSample(n) == CALIBRATION_SAMPLES + 1 + n

\* the conditioned samples that wrote ring slot k
WritersOf(k) == {n \in 1..Conditioned : (n - 1) % ARRAY_SIZE = k}

\* the last of them (0 when the slot was never written)
LastWriterOf(k) ==
    IF WritersOf(k) = {} THEN 0
    ELSE CHOOSE n \in WritersOf(k) : \A m \in WritersOf(k) : m <= n

\* C15: the raw_norm of each channel of every buffered sample is
\* max(0, raw - baseline) of the reading it was made from, so never negative;
\* every ring slot holds max(0, filter output) of the reading that wrote it;
\* the EMA and the smoothed values are never negative.
C15_NormalizedAndFilteredClamped ==
    /\ \A i \in DOMAIN mcu.frameBuffer :
          LET s == mcu.frameBuffer[i]
          IN  s.timestamp > 0 =>
                /\ s.raw1 = Max0(readLog[s.timestamp].raw1 - mcu.baseline1)
                /\ s.raw2 = Max0(readLog[s.timestamp].raw2 - mcu.baseline2)
                /\ s.raw1 >= 0 /\ s.raw2 >= 0
                /\ s.ema1 >= 0 /\ s.ema2 >= 0
    /\ \A k \in 0..(ARRAY_SIZE - 1) :
          /\ mcu.dataArray1[k] >= 0 /\ mcu.dataArray2[k] >= 0
          /\ LastWriterOf(k) > 0 =>
                /\ mcu.dataArray1[k] = Max0(readLog[TickOfSample(LastWriterOf(k))].out1)
                /\ mcu.dataArray2[k] = Max0(readLog[TickOfSample(LastWriterOf(k))].out2)
    /\ mcu.emaValue1.n >= 0 /\ mcu.emaValue1.d > 0
    /\ mcu.emaValue2.n >= 0 /\ mcu.emaValue2.d > 0

\* the last sample read a raw value below the baseline of channel 0 and a
\* negative filter output: both were stored as 0, channel 1 above baseline
C15_Witness ==
    /\ Conditioned >= 2
    /\ readLog[Len(readLog)].raw1 < mcu.baseline1
    /\ readLog[Len(readLog)].out1 < 0
    /\ readLog[Len(readLog)].raw2 > mcu.baseline2
    /\ \E i \in DOMAIN mcu.frameBuffer :
          /\ mcu.frameBuffer[i].timestamp = Len(readLog)
          /\ mcu.frameBuffer[i].raw1 = 0
          /\ mcu.frameBuffer[i].raw2 > 0
    /\ mcu.dataArray1[(Conditioned - 1) % ARRAY_SIZE] = 0

\* a step that conditioned a sample
SampleStep == Len(readLog') = Len(readLog) + 1 /\ Len(readLog') > CALIBRATION_SAMPLES + 1

\* the sample buffered by this step
NewSample ==
    mcu'.frameBuffer[CHOOSE i \in DOMAIN mcu'.frameBuffer :
                        mcu'.frameBuffer[i].timestamp = Len(readLog')]

\* the integer quotient of the sum of the ring slots by ARRAY_SIZE
RingQuotient(ring) ==
    LET RECURSIVE Sum(_)
        Sum(k) == IF k < 0 THEN 0 ELSE ring[k] + Sum(k - 1)
    IN  Sum(ARRAY_SIZE - 1) \div ARRAY_SIZE

\* alpha * avg + (1 - alpha) * prev as a fraction in lowest terms
Smooth(avg, prev) ==
    Fraction(ALPHA_NUM * avg * prev.d + (ALPHA_DEN - ALPHA_NUM) * prev.n,
             ALPHA_DEN * prev.d)

\* one channel over a sample step: n is the number of samples conditioned
\* after the step
ChannelFresh(n, ring, full, fullAfter, ema, emaAfter, smoothed) ==
    /\ full => fullAfter
    /\ fullAfter <=> n >= ARRAY_SIZE
    /\ n < ARRAY_SIZE => (smoothed = 0 /\ emaAfter = ema)
    /\ n >= ARRAY_SIZE =>
          /\ emaAfter = Smooth(RingQuotient(ring), ema)
          /\ smoothed = emaAfter.n \div emaAfter.d

\* C16: for each channel the smoothed value of a sample is 0 while fewer
\* than ARRAY_SIZE samples were conditioned; from the sample that fills the
\* ring on, the fill flag stays set and the smoothed value of every sample
\* is the EMA recomputed in that same step from the ring that already holds
\* that sample's filtered value.
C16_SmoothedZeroThenFresh ==
    [][SampleStep =>
        /\ \E i \in DOMAIN mcu'.frameBuffer :
              mcu'.frameBuffer[i].timestamp = Len(readLog')
        /\ ChannelFresh(Len(readLog') - (CALIBRATION_SAMPLES + 1), mcu'.dataArray1,
                        mcu.arrayFull1, mcu'.arrayFull1, mcu.emaValue1,
                        mcu'.emaValue1, NewSample.ema1)
        /\ ChannelFresh(Len(readLog') - (CALIBRATION_SAMPLES + 1), mcu'.dataArray2,
                        mcu.arrayFull2, mcu'.arrayFull2, mcu.emaValue2,
                        mcu'.emaValue2, NewSample.ema2)]_vars

\* the sample that filled the ring and the one after it were both buffered,
\* with different non-zero smoothed values, after a frame of earlier samples
C16_Witness ==
    /\ Conditioned = ARRAY_SIZE + 1
    /\ mcu.arrayFull1
    /\ \E i, j \in DOMAIN mcu.frameBuffer :
          /\ mcu.frameBuffer[i].timestamp = Len(readLog) - 1
          /\ mcu.frameBuffer[j].timestamp = Len(readLog)
          /\ mcu.frameBuffer[i].ema1 > 0
          /\ mcu.frameBuffer[j].ema1 > mcu.frameBuffer[i].ema1
    /\ Len(emitted) = 2

\* the filtered value of channel output f pushed by the n-th conditioned sample
FilteredOf(n, f) == Max0(readLog[TickOfSample(n)][f])

\* the sum of the last ARRAY_SIZE filtered values up to the n-th sample
RECURSIVE WindowSum(_, _, _)
WindowSum(n, f, w) == IF w = 0 THEN 0 ELSE FilteredOf(n, f) + WindowSum(n - 1, f, w - 1)

\* alpha * (sum / ARRAY_SIZE) + (1 - alpha) * prev with the exact mean
SmoothMean(sum, prev) ==
    Fraction(ALPHA_NUM * sum * prev.d + (ALPHA_DEN - ALPHA_NUM) * prev.n * ARRAY_SIZE,
             ALPHA_DEN * prev.d * ARRAY_SIZE)

\* the EMA after n conditioned samples, avg being the exact mean of the ring
RECURSIVE EmaOfMeanAt(_, _)
EmaOfMeanAt(n, f) ==
    IF n < ARRAY_SIZE THEN [n |-> 0, d |-> 1]
    ELSE SmoothMean(WindowSum(n, f, ARRAY_SIZE), EmaOfMeanAt(n - 1, f))

\* the EMA after n conditioned samples, avg being the integer quotient
RECURSIVE EmaOfQuotientAt(_, _)
EmaOfQuotientAt(n, f) ==
    IF n < ARRAY_SIZE THEN [n |-> 0, d |-> 1]
    ELSE Smooth(WindowSum(n, f, ARRAY_SIZE) \div ARRAY_SIZE, EmaOfQuotientAt(n - 1, f))

Floor(q) == q.n \div q.d

\* C17 as stated: once the ring is full, ema = alpha*avg + (1-alpha)*ema_prev
\* with avg the mean of the ARRAY_SIZE ring slots and ema_prev initially 0,
\* and the smoothed value of every buffered sample is floor(ema).
C17_EmaOfRingMean ==
    /\ mcu.emaValue1 = EmaOfMeanAt(Conditioned, "out1")
    /\ mcu.emaValue2 = EmaOfMeanAt(Conditioned, "out2")
    /\ \A i \in DOMAIN mcu.frameBuffer :
          LET s == mcu.frameBuffer[i]
          IN  s.timestamp > 0 =>
                /\ s.ema1 = Floor(EmaOfMeanAt(s.timestamp - (CALIBRATION_SAMPLES + 1), "out1"))
                /\ s.ema2 = Floor(EmaOfMeanAt(s.timestamp - (CALIBRATION_SAMPLES + 1), "out2"))

\* C17 amended: the same with avg the integer quotient of the sum of the
\* ARRAY_SIZE ring slots by ARRAY_SIZE (the mean rounded down).
C17_EmaOfRingQuotient ==
    /\ mcu.emaValue1 = EmaOfQuotientAt(Conditioned, "out1")
    /\ mcu.emaValue2 = EmaOfQuotientAt(Conditioned, "out2")
    /\ \A i \in DOMAIN mcu.frameBuffer :
          LET s == mcu.frameBuffer[i]
          IN  s.timestamp > 0 =>
                /\ s.ema1 = Floor(EmaOfQuotientAt(s.timestamp - (CALIBRATION_SAMPLES + 1), "out1"))
                /\ s.ema2 = Floor(EmaOfQuotientAt(s.timestamp - (CALIBRATION_SAMPLES + 1), "out2"))

\* filtered values 2, 4, 6 arrived: avg 4, ema 0.35 * 4 = 7/5, smoothed 1 on
\* the third sample
C17_Witness ==
    /\ Conditioned = ARRAY_SIZE
    /\ FilteredOf(1, "out1") = 2 /\ FilteredOf(2, "out1") = 4 /\ FilteredOf(3, "out1") = 6
    /\ mcu.emaValue1 = [n |-> 7, d |-> 5]
    /\ \E i \in DOMAIN mcu.frameBuffer :
          /\ mcu.frameBuffer[i].timestamp = Len(readLog)
          /\ mcu.frameBuffer[i].ema1 = 1

\* C20: a pass that posts a frame leaves the buffer empty and the sequence
\* number advanced whatever the result of the POST, and the frame posted
\* has a frameSequence and samples that no earlier posted frame had, all its
\* samples taken after those of every earlier frame: nothing is sent twice.
C20_NoRetryOfFailedFrame ==
    [][Len(emitted') > Len(emitted) =>
        LET sent == emitted'[Len(emitted')]
            stamps == {sent.stamps[k] : k \in DOMAIN sent.stamps}
        IN  /\ mcu'.bufferIndex = 0
            /\ mcu'.frameSequence = sent.frameSequence + 1
            /\ \A i \in DOMAIN emitted :
                  /\ emitted[i].frameSequence # sent.frameSequence
                  /\ \A a \in Stamps(i), b \in stamps : a < b]_vars

\* a rejected frame and an unreachable one were followed by a third frame
\* with the next sequence number
C20_Witness ==
    /\ Len(emitted) = 3
    /\ emitted[1].httpCode = 500
    /\ emitted[2].httpCode = -1
    /\ emitted[3].frameSequence = 2
    /\ mcu.bufferIndex = 0

\* C21: while wifiConnected is false and the buffer is full, a step accepts
\* no sample (the buffer and bufferIndex stay as they are; a sampling tick
\* only adds to the discarded samples) and emits no frame.
C21_FullBufferHeldWhileDown ==
    [][(~mcu.wifiConnected /\ mcu.bufferIndex = SAMPLES_PER_FRAME) =>
        /\ mcu'.frameBuffer = mcu.frameBuffer
        /\ mcu'.bufferIndex = mcu.bufferIndex
        /\ emitted' = emitted
        /\ ticks' > ticks => discarded' = discarded \cup {ticks'}]_vars

\* the link is marked down, the buffer is full and two samples taken since
\* were not accepted
C21_Witness ==
    /\ ~mcu.wifiConnected
    /\ mcu.bufferIndex = SAMPLES_PER_FRAME
    /\ Cardinality(discarded) >= 2
    /\ \A t \in discarded : \A b \in BufferStamps : b < t

\* the last pass through the send branch found the link down
DetectedDown == lastSend.called /\ ~lastSend.posted

\* no pass of loop() turns a false wifiConnected into a true one: the send
\* branch, the only caller of setupWiFi() after setup(), is skipped while the
\* flag is false (part_000:154)
FlagStaysDown == [][~mcu.wifiConnected => ~mcu.wifiConnected']_vars

\* C22: whenever the producer has detected the link as down, wifiConnected
\* is false and the link is up again, later wifiConnected is true again or
\* the link has gone down again.
C22_LinkFlagRecovers ==
    (DetectedDown /\ ~mcu.wifiConnected /\ link) ~> (mcu.wifiConnected \/ ~link)

\* the state of the producer after a pass, apart from the framesSent counter
\* of the statistics report
AfterSend(p, httpCode) ==
    [ResetBuffer(sendFrameToServer(p, TRUE, TRUE, httpCode)) EXCEPT !.framesSent = 0]

\* C23: a pass that posted a frame leaves the buffer empty and the link
\* marked usable whatever the POST returned, the next sampling tick buffers
\* its sample in slot 0, and the state left by the send differs from the one
\* left by a successful send in the framesSent counter only.
C23_SendOutcomeDoesNotGateSampling ==
    [][/\ Len(emitted') > Len(emitted) =>
            /\ mcu'.bufferIndex = 0
            /\ mcu'.baselineCalibrated
            /\ mcu'.wifiConnected
            /\ \A r \in SteadyReadings :
                  /\ collectSample(mcu', r, ticks' + 1).bufferIndex = 1
                  /\ collectSample(mcu', r, ticks' + 1).frameBuffer[0].timestamp = ticks' + 1
       /\ \A r \in SteadyReadings, httpCode \in HttpCodes :
            (mcu'.baselineCalibrated /\ mcu'.wifiConnected) =>
               AfterSend(collectSample(mcu', r, ticks' + 1), httpCode)
                 = AfterSend(collectSample(mcu', r, ticks' + 1), 200)]_vars

\* after an unreachable server and a rejected frame, sampling went on and
\* filled the buffer's first slot again
C23_Witness ==
    /\ Len(emitted) = 2
    /\ emitted[1].httpCode = -1
    /\ emitted[2].httpCode = 500
    /\ mcu.bufferIndex = 1
    /\ mcu.frameBuffer[0].timestamp = ticks
    /\ \A k \in DOMAIN emitted[2].stamps : emitted[2].stamps[k] < ticks

\* nothing of the sampling path has run: the buffer, both rings, both EMA
\* accumulators and the sample counter are as setup() left them, and no
\* frame was emitted
Untouched(p) ==
    /\ p.bufferIndex = 0
    /\ p.frameBuffer = McuInit(TRUE).frameBuffer
    /\ p.dataArray1 = McuInit(TRUE).dataArray1
    /\ p.dataArray2 = McuInit(TRUE).dataArray2
    /\ p.arrayIndex1 = 0 /\ p.arrayIndex2 = 0
    /\ ~p.arrayFull1 /\ ~p.arrayFull2
    /\ p.emaValue1 = McuInit(TRUE).emaValue1
    /\ p.emaValue2 = McuInit(TRUE).emaValue2
    /\ p.samplesCollected = 0
    /\ p.frameSequence = 0

\* the parts of the calibration sequence that do not depend on which tick
\* completes it: the producer starts uncalibrated, nothing is conditioned,
\* buffered or emitted while it is, and once calibrated it stays so
CalibrationPhase ==
    /\ ~mcu.baselineCalibrated
    /\ [][/\ ~mcu'.baselineCalibrated => (Untouched(mcu') /\ emitted' = <<>>)
          /\ (~mcu.baselineCalibrated /\ mcu'.baselineCalibrated) =>
                (Untouched(mcu') /\ emitted' = <<>>)
          /\ mcu.baselineCalibrated => mcu'.baselineCalibrated]_vars

\* C31 as stated: the producer starts calibrating; while calibrating no
\* sample is conditioned or buffered and no frame is emitted; the step in
\* which calibrationCount reaches CALIBRATION_SAMPLES computes the baselines
\* and sets baselineCalibrated; baselineCalibrated never goes back to false.
C31_StreamingOnReachingK ==
    /\ CalibrationPhase
    /\ [][(mcu.calibrationCount < CALIBRATION_SAMPLES
            /\ mcu'.calibrationCount = CALIBRATION_SAMPLES) =>
              mcu'.baselineCalibrated]_vars

\* C31 amended: as above, but the step in which calibrationCount reaches
\* CALIBRATION_SAMPLES leaves baselineCalibrated false; the next sampling
\* tick computes the baselines from the sums, sets baselineCalibrated and
\* conditions nothing (its reading is dropped); so the producer is
\* calibrated exactly when more than CALIBRATION_SAMPLES ticks were sampled.
C31_StreamingOnTickAfterK ==
    /\ CalibrationPhase
    /\ [](mcu.baselineCalibrated <=> Len(readLog) > CALIBRATION_SAMPLES)
    /\ [][/\ mcu'.calibrationCount # mcu.calibrationCount =>
                ~mcu'.baselineCalibrated
          /\ (~mcu.baselineCalibrated /\ ticks' # ticks
                /\ mcu.calibrationCount = CALIBRATION_SAMPLES) =>
                /\ mcu'.baselineCalibrated
                /\ mcu'.baseline1 = mcu.calibrationSum1 \div CALIBRATION_SAMPLES
                /\ mcu'.baseline2 = mcu.calibrationSum2 \div CALIBRATION_SAMPLES]_vars

\* the tick after the last accumulating one has just completed calibration:
\* CALIBRATION_SAMPLES + 1 readings were taken and nothing is buffered
C31_Witness ==
    /\ mcu.baselineCalibrated
    /\ Len(readLog) = CALIBRATION_SAMPLES + 1
    /\ ticks = CALIBRATION_SAMPLES + 1
    /\ mcu.calibrationCount = CALIBRATION_SAMPLES
    /\ mcu.baseline1 = 5 /\ mcu.baseline2 = 2
    /\ Untouched(mcu)

\* a step that posted a frame
Posts == Len(emitted') = Len(emitted) + 1

\* the buffer holds one more sample than before the step, or was full
WasFullAtSend ==
    \/ mcu.bufferIndex = SAMPLES_PER_FRAME
    \/ mcu.bufferIndex = SAMPLES_PER_FRAME - 1 /\ ticks' = ticks + 1

\* C32: the buffer is emptied, and a frame posted, only by a pass in which
\* the producer is calibrated, wifiConnected is true and the buffer is full;
\* every posted frame declares SAMPLES_PER_FRAME samples and carries the
\* SAMPLES_PER_FRAME buffered samples slot by slot, their timestamps
\* consecutive sampling ticks; after the pass bufferIndex is 0.
C32_FullFramesOnly ==
    /\ [](mcu.bufferIndex \in 0..SAMPLES_PER_FRAME)
    /\ [][/\ (Posts \/ mcu'.bufferIndex < mcu.bufferIndex) =>
                /\ mcu'.baselineCalibrated
                /\ mcu.wifiConnected
                /\ WasFullAtSend
                /\ mcu'.bufferIndex = 0
          /\ Posts =>
                \E f \in {lastSend'.payload} :
                    /\ lastSend'.posted
                    /\ f.samplesInFrame = SAMPLES_PER_FRAME
                    /\ DOMAIN f.samples = 1..SAMPLES_PER_FRAME
                    /\ \A i \in 1..SAMPLES_PER_FRAME :
                          /\ f.samples[i].t = mcu'.frameBuffer[i - 1].timestamp
                          /\ f.samples[i].ch0.raw = mcu'.frameBuffer[i - 1].raw1
                          /\ f.samples[i].ch0.ema = mcu'.frameBuffer[i - 1].ema1
                          /\ f.samples[i].ch1.raw = mcu'.frameBuffer[i - 1].raw2
                          /\ f.samples[i].ch1.ema = mcu'.frameBuffer[i - 1].ema2
                    /\ \A i \in 1..(SAMPLES_PER_FRAME - 1) :
                          f.samples[i + 1].t = f.samples[i].t + 1
                    /\ emitted'[Len(emitted')].frameSequence = f.frameSequence]_vars

\* the second frame went out with the samples of ticks 6 and 7 and left the
\* buffer empty
C32_Witness ==
    /\ Len(emitted) = 2
    /\ lastSend.called /\ lastSend.posted
    /\ lastSend.payload.frameSequence = 1
    /\ lastSend.payload.samplesInFrame = SAMPLES_PER_FRAME
    /\ lastSend.payload.samples[1].t = TickOfSample(SAMPLES_PER_FRAME + 1)
    /\ lastSend.payload.samples[2].t = TickOfSample(SAMPLES_PER_FRAME + 2)
    /\ mcu.bufferIndex = 0
    /\ ticks = TickOfSample(2 * SAMPLES_PER_FRAME)

\* one channel's conditioner over a sample step that read filter output out
ChannelAdvanced(out, ring, ringAfter, cursor, cursorAfter, full, fullAfter,
                ema, emaAfter) ==
    /\ ringAfter = [ring EXCEPT ![cursor] = Max0(out)]
    /\ cursorAfter = (cursor + 1) % ARRAY_SIZE
    /\ fullAfter <=> (full \/ cursorAfter = 0)
    /\ emaAfter = IF fullAfter THEN Smooth(RingQuotient(ringAfter), ema) ELSE ema

\* C33: every sampling tick after calibration writes the clamped filter
\* output into the ring slot under the cursor of each channel, moves the
\* cursor on by one modulo ARRAY_SIZE, sets the fill flag when the cursor
\* wraps and, once the flag is set, recomputes the EMA, the same on a tick
\* whose sample is not buffered because the buffer is full; both cursors are
\* always in 0..ARRAY_SIZE-1 and a set fill flag stays set.
C33_ConditionerAlwaysAdvances ==
    /\ [](/\ mcu.arrayIndex1 \in 0..(ARRAY_SIZE - 1)
          /\ mcu.arrayIndex2 \in 0..(ARRAY_SIZE - 1))
    /\ [][/\ mcu.arrayFull1 => mcu'.arrayFull1
          /\ mcu.arrayFull2 => mcu'.arrayFull2
          /\ SampleStep =>
              \E r \in {readLog'[Len(readLog')]} :
                /\ ChannelAdvanced(r.out1, mcu.dataArray1, mcu'.dataArray1,
                                   mcu.arrayIndex1, mcu'.arrayIndex1,
                                   mcu.arrayFull1, mcu'.arrayFull1,
                                   mcu.emaValue1, mcu'.emaValue1)
                /\ ChannelAdvanced(r.out2, mcu.dataArray2, mcu'.dataArray2,
                                   mcu.arrayIndex2, mcu'.arrayIndex2,
                                   mcu.arrayFull2, mcu'.arrayFull2,
                                   mcu.emaValue2, mcu'.emaValue2)]_vars

\* with the link marked down the buffer filled and two more samples were
\* dropped, yet the ring wrapped, the flag is set and the EMA has moved
C33_Witness ==
    /\ ~mcu.wifiConnected
    /\ mcu.bufferIndex = SAMPLES_PER_FRAME
    /\ Cardinality(discarded) = 2
    /\ Conditioned = SAMPLES_PER_FRAME + 2
    /\ mcu.arrayFull1 /\ mcu.arrayFull2
    /\ mcu.arrayIndex1 = (SAMPLES_PER_FRAME + 2) % ARRAY_SIZE
    /\ mcu.emaValue1.n > 0
    /\ mcu.dataArray1[0] = Max0(readLog[Len(readLog)].out1)
    /\ emitted = <<>>

\* timestamps of the samples waiting in the buffer
LiveStamps == {mcu.frameBuffer[i].timestamp : i \in 0..(mcu.bufferIndex - 1)}

\* the buffers handed to sendFrameToServer() that held the sample of tick t
HandedWith(t) ==
    {k \in DOMAIN handed : \E i \in DOMAIN handed[k].stamps : handed[k].stamps[i] = t}

\* C37: as long as wifiConnected is true, no sample was dropped, the buffer
\* is never left full at the end of a pass, and every sample conditioned so
\* far is either waiting in the buffer or in exactly one buffer handed to
\* sendFrameToServer(); the pass whose sample fills the buffer hands it over
\* and empties it.
C37_NoDiscardWhileLinkUsable ==
    /\ [](mcu.wifiConnected =>
            /\ discarded = {}
            /\ mcu.bufferIndex < SAMPLES_PER_FRAME
            /\ \A n \in 1..Conditioned :
                  \E t \in {TickOfSample(n)} :
                      Cardinality(HandedWith(t))
                        + (IF t \in LiveStamps THEN 1 ELSE 0) = 1)
    /\ [][(mcu.wifiConnected /\ SampleStep
            /\ mcu.bufferIndex = SAMPLES_PER_FRAME - 1) =>
              /\ Len(handed') = Len(handed) + 1
              /\ \E i \in DOMAIN handed'[Len(handed')].stamps :
                    handed'[Len(handed')].stamps[i] = ticks'
              /\ mcu'.bufferIndex = 0]_vars

\* five samples were conditioned with the link marked usable: two buffers
\* were handed over, the second while the access point was away, the fifth
\* sample waits in the buffer, and nothing was dropped
C37_Witness ==
    /\ mcu.wifiConnected
    /\ Conditioned = 2 * SAMPLES_PER_FRAME + 1
    /\ Len(handed) = 2
    /\ handed[1].posted /\ ~handed[2].posted
    /\ mcu.bufferIndex = 1
    /\ LiveStamps = {TickOfSample(Conditioned)}
    /\ discarded = {}

\* C38: every step that empties the buffer advances frameSequence by one,
\* so frameSequence always equals the number of buffers handed over and
\* emptied.
C38_ResetConsumesSequence ==
    /\ [](mcu.frameSequence = Len(handed))
    /\ [][mcu'.bufferIndex < mcu.bufferIndex =>
            mcu'.frameSequence = mcu.frameSequence + 1]_vars

(***************************************************************************)
(* Properties of the collector                                             *)
(***************************************************************************)
\* a step that handled one POST /api/emg request
IngestStep == nIngest' = nIngest + 1

\* the properties of frame restricted to those the request body carried
BodyOf(frame, body) == [f \in DOMAIN body |-> frame[f]]

StoresBody(frames, body) ==
    /\ Len(frames) > 0
    /\ DOMAIN body \subseteq DOMAIN frames[Len(frames)]
    /\ BodyOf(frames[Len(frames)], body) = body

\* C1: in every reachable state the history store holds at most
\* MAX_STORED_FRAMES frames, whatever ingestions, clear-alls and resets ran.
C1_StoreBounded == Len(recentFrames) <= MAX_STORED_FRAMES

\* an ingestion has just evicted a frame from a store at capacity
C1_Witness ==
    /\ lastOp.op = "emg" /\ lastOp.res.success
    /\ arrivals > MAX_STORED_FRAMES
    /\ Len(recentFrames) = MAX_STORED_FRAMES

\* C2: once more than MAX_STORED_FRAMES frames were ingested since the store
\* was last emptied, the store holds exactly the MAX_STORED_FRAMES most
\* recently ingested ones, oldest first, and the unfiltered latest query
\* answers with the last ingested frame.
C2_StoreKeepsMostRecent ==
    /\ arrivals > MAX_STORED_FRAMES =>
          /\ Len(recentFrames) = MAX_STORED_FRAMES
          /\ \A i \in 1..MAX_STORED_FRAMES :
                recentFrames[i].arrival = arrivals - MAX_STORED_FRAMES + i
    /\ arrivals > 0 =>
          /\ FramesLatest(NoQuery).success
          /\ FramesLatest(NoQuery).frame.arrival = arrivals
    /\ (lastOp.op = "emg" /\ lastOp.res.success) =>
          /\ FramesLatest(NoQuery).success
          /\ DOMAIN lastOp.req.body \subseteq DOMAIN FramesLatest(NoQuery).frame
          /\ BodyOf(FramesLatest(NoQuery).frame, lastOp.req.body) = lastOp.req.body

\* three frames went into a store of capacity two: the first one is gone
C2_Witness ==
    /\ arrivals = MAX_STORED_FRAMES + 1
    /\ Len(recentFrames) = MAX_STORED_FRAMES
    /\ recentFrames[1].arrival = 2
    /\ FramesLatest(NoQuery).frame.arrival = MAX_STORED_FRAMES + 1

\* the sum, over the ingestions of one device after its first, of
\* (frameSequence - expected) where frameSequence > expected and
\* expected = previous frameSequence + 1
RECURSIVE SumOfPositiveGaps(_)
SumOfPositiveGaps(log) ==
    IF Len(log) < 2 THEN 0
    ELSE LET n == Len(log)
             expected == JsPlus1(log[n - 1])
         IN  SumOfPositiveGaps(SubSeq(log, 1, n - 1))
               + (IF JsGt(log[n], expected) THEN log[n].n - expected.n ELSE 0)

\* C3: for every device, droppedFrames equals the sum of the positive gaps
\* over the ingestions since its stats entry was created.
C3_DroppedIsSumOfGaps ==
    \A d \in DOMAIN stats.devices :
        /\ d \in DOMAIN seqLog
        /\ stats.devices[d].droppedFrames = SumOfPositiveGaps(seqLog[d])

\* device D1 sent 0, 2, 4: two gaps of one frame each
C3_Witness ==
    /\ "D1" \in DOMAIN stats.devices
    /\ "D1" \in DOMAIN seqLog
    /\ seqLog["D1"] = <<Num(0), Num(2), Num(4)>>
    /\ stats.devices["D1"].droppedFrames = 2

IsMalformedReq(req) ==
    \/ ~Has(req, "body")
    \/ ~({"deviceId", "frameSequence", "samplesInFrame"} \subseteq DOMAIN req.body)

\* C7: a malformed frame gets the error response and is neither stored nor
\* broadcast; a structurally valid frame is accepted.
C7_MalformedRejectedValidAccepted ==
    [][IngestStep =>
        IF IsMalformedReq(lastOp'.req)
        THEN /\ ~lastOp'.res.success
             /\ recentFrames' = recentFrames
             /\ lastOp'.bcast.msg.type = "none"
        ELSE /\ lastOp'.res.success
             /\ StoresBody(recentFrames', lastOp'.req.body)]_vars

Counters(st) ==
    [framesReceived |-> st.framesReceived, samplesReceived |-> st.samplesReceived,
     droppedFrames |-> st.droppedFrames, lastFrameSequence |-> st.lastFrameSequence,
     devices |-> st.devices]

OpenSubscribers ==
    {w \in WsIds : readyState[w] = "OPEN" /\ \E i \in DOMAIN clients : clients[i] = w}

\* C9: for every accepted frame a frame message with the frame and the
\* aggregate stats, this frame counted, is sent to every subscriber open at
\* that moment, and the frame is in the store when the message is sent.
C9_FramePublished ==
    [][(IngestStep /\ lastOp'.res.success) =>
        /\ lastOp'.bcast.msg =
              [type |-> "frame", data |-> lastOp'.req.body,
               stats |-> [totalFrames |-> stats'.framesReceived,
                          totalSamples |-> stats'.samplesReceived,
                          droppedFrames |-> stats'.droppedFrames]]
        /\ stats'.framesReceived = stats.framesReceived + 1
        /\ lastOp'.bcast.attempted = OpenSubscribers
        /\ lastOp'.bcast.delivered = OpenSubscribers \ lastOp'.fail
        /\ StoresBody(lastOp'.storeAtBroadcast, lastOp'.req.body)]_vars

\* a frame that revealed a gap was delivered to two open subscribers
C9_Witness ==
    /\ lastOp.op = "emg" /\ lastOp.res.success
    /\ Cardinality(lastOp.bcast.delivered) = 2
    /\ lastOp.bcast.msg.stats.droppedFrames > 0
    /\ lastOp.bcast.msg.stats.totalFrames = 2

\* C10: when the send to one subscriber throws during the broadcast of a
\* frame, every other open subscriber still gets the message and the
\* ingestion still counts the frame, stores it and answers success.
C10_FailureIsolated ==
    [][(IngestStep /\ Has(lastOp'.req, "body") /\ lastOp'.fail # {}) =>
        /\ lastOp'.bcast.delivered = OpenSubscribers \ lastOp'.fail
        /\ lastOp'.res.success
        /\ lastOp'.res.status = 200
        /\ stats'.framesReceived = stats.framesReceived + 1
        /\ StoresBody(recentFrames', lastOp'.req.body)]_vars

\* one send threw, the other subscriber received the frame
C10_Witness ==
    /\ lastOp.op = "emg" /\ lastOp.res.success
    /\ lastOp.fail # {}
    /\ lastOp.bcast.delivered # {}
    /\ lastOp.bcast.attempted = lastOp.fail \cup lastOp.bcast.delivered

\* a step in which a handler ran
HandlerStep == lastOp' # lastOp \/ IngestStep

\* C11: a subscriber whose send threw during a broadcast, or for which the
\* 'error' event fired, is no longer in the client list after that handler;
\* a subscriber whose 'close' event fired is no longer in it either.
C11_FailedSubscriberRemoved ==
    [][HandlerStep =>
        /\ \A w \in lastOp'.fail : w \notin Range(clients')
        /\ lastOp'.op \in {"error", "close"} => lastOp'.req.ws \notin Range(clients')]_vars

\* C12: a connection appends the new ws object to the client list and sends
\* it one stats message carrying the aggregate stats of that moment; the
\* first message any connected ws object was sent is that stats message.
C12_SnapshotOnConnect ==
    [][/\ Len(clients') > Len(clients) =>
            /\ clients' = Append(clients, clients'[Len(clients')])
            /\ lastOp'.bcast.msg = [type |-> "stats", data |-> stats]
            /\ lastOp'.bcast.delivered = {clients'[Len(clients')]}
            /\ stats' = stats
       /\ \A w \in Range(clients') : firstReceived'[w] = "stats"]_vars

\* a second subscriber connected after frames were counted and got the
\* totals of that moment
C12_Witness ==
    /\ lastOp.op = "connection"
    /\ Len(clients) = 2
    /\ lastOp.bcast.msg.type = "stats"
    /\ lastOp.bcast.msg.data.framesReceived = 2
    /\ lastOp.bcast.delivered = {clients[2]}

\* C18: a reset sets the aggregate counters to zero, sends a reset message
\* to every subscriber open at that moment, empties the store when
\* clearFrames=true was requested and leaves it unchanged otherwise.
C18_ResetZeroesAndNotifies ==
    [][(HandlerStep /\ lastOp'.op = "reset") =>
        /\ stats'.framesReceived = 0
        /\ stats'.samplesReceived = 0
        /\ stats'.droppedFrames = 0
        /\ lastOp'.bcast.msg = [type |-> "reset"]
        /\ lastOp'.bcast.attempted = OpenSubscribers
        /\ lastOp'.bcast.delivered = OpenSubscribers \ lastOp'.fail
        /\ lastOp'.req.clearFrames => recentFrames' = <<>>
        /\ ~lastOp'.req.clearFrames => recentFrames' = recentFrames]_vars

\* a reset without clearFrames ran over a full store and reached a subscriber
C18_Witness ==
    /\ lastOp.op = "reset"
    /\ ~lastOp.req.clearFrames
    /\ stats.framesReceived = 0
    /\ Len(recentFrames) = MAX_STORED_FRAMES
    /\ lastOp.bcast.delivered # {}

\* C19: a per-device stats entry is created by the first frame of a device
\* and every entry that exists still exists after any step.
C19_DeviceStatsNeverDeleted ==
    [][/\ \A d \in DOMAIN stats.devices : d \in DOMAIN stats'.devices
       /\ (IngestStep /\ lastOp'.res.success) =>
             DeviceIdOf(lastOp'.req.body) \in DOMAIN stats'.devices]_vars

\* the stored frames of the device a query names, all of them when it names
\* none, in storage order
MatchingFrames(query) ==
    IF Has(query, "deviceId")
    THEN SelectSeq(recentFrames,
                   LAMBDA f : "deviceId" \in DOMAIN f /\ f.deviceId = query.deviceId)
    ELSE recentFrames

\* the last k entries of a sequence
LastOf(frames, k) == SubSeq(frames, Len(frames) - k + 1, Len(frames))

Min(a, b) == IF a <= b THEN a ELSE b

\* C24: for every limit 0, 1, 2, ... and every device filter, list-recent
\* returns the last min(limit, m) of the m stored frames that match the
\* filter, in storage order, so at most limit frames.
C24_ListReturnsLastLimit ==
    \A query \in ListQueries :
        (Has(query, "limit") /\ query.limit \in {"0", "1", "2", "3"}) =>
            LET limit == CHOOSE n \in 0..3 : ParseInt(query.limit) = Num(n)
                m == Len(MatchingFrames(query))
            IN  /\ FramesList(query).frames = LastOf(MatchingFrames(query), Min(limit, m))
                /\ FramesList(query).count <= limit

\* C25: for every accepted frame the stored frame, the broadcast payload and
\* the acknowledgement carry the frameSequence of the request (none of them
\* one when the request has none), and the acknowledgement's samplesReceived
\* is the request's samplesInFrame.
C25_SequenceNumberUntouched ==
    [][(IngestStep /\ lastOp'.res.success) =>
        LET body == lastOp'.req.body
            stored == recentFrames'[Len(recentFrames')]
            payload == lastOp'.bcast.msg.data
        IN  /\ Has(body, "frameSequence") =>
                  /\ Has(stored, "frameSequence")
                  /\ stored.frameSequence = body.frameSequence
                  /\ Has(payload, "frameSequence")
                  /\ payload.frameSequence = body.frameSequence
                  /\ lastOp'.res.frameSequence = Num(body.frameSequence)
            /\ ~Has(body, "frameSequence") =>
                  /\ ~Has(stored, "frameSequence")
                  /\ ~Has(payload, "frameSequence")
                  /\ lastOp'.res.frameSequence = Undefined
            /\ Has(body, "samplesInFrame") =>
                  lastOp'.res.samplesReceived = body.samplesInFrame]_vars

\* a frame numbered MaxSeq arrived after one numbered lower and was
\* acknowledged and stored under its own number
C25_Witness ==
    /\ lastOp.op = "emg" /\ lastOp.res.success
    /\ Has(lastOp.req.body, "frameSequence")
    /\ lastOp.req.body.frameSequence = MaxSeq
    /\ lastOp.res.frameSequence = Num(MaxSeq)
    /\ lastOp.res.samplesReceived = SAMPLES_PER_FRAME
    /\ Len(recentFrames) = 2
    /\ recentFrames[2].frameSequence = MaxSeq
    /\ Has(recentFrames[1], "frameSequence")
    /\ recentFrames[1].frameSequence = 1

\* C26: a message from a subscriber that parses is sent as a data message to
\* every open subscriber, the sender included; one that does not parse is
\* sent to nobody; neither changes the stats, the store or the client list.
C26_MessageRelayed ==
    [][(HandlerStep /\ lastOp'.op = "message") =>
        /\ stats' = stats
        /\ recentFrames' = recentFrames
        /\ clients' = clients
        /\ lastOp'.req.parses =>
              /\ lastOp'.bcast.msg.type = "data"
              /\ lastOp'.bcast.attempted = OpenSubscribers
              /\ lastOp'.bcast.delivered = OpenSubscribers \ lastOp'.fail
              /\ lastOp'.req.ws \in lastOp'.bcast.attempted
        /\ ~lastOp'.req.parses => lastOp'.bcast = NoBroadcast]_vars

\* a message of the second subscriber reached both subscribers while a
\* frame was stored
C26_Witness ==
    /\ lastOp.op = "message"
    /\ lastOp.req.parses
    /\ Len(clients) = 2
    /\ lastOp.req.ws = clients[2]
    /\ lastOp.bcast.delivered = {clients[1], clients[2]}
    /\ stats.framesReceived = 1
    /\ Len(recentFrames) = 1

QueryOps == {"frames", "latest", "range", "sequence", "status"}

\* every answer a query can give in this state is made of frames of the
\* store, no more than MAX_STORED_FRAMES of them
AnswersFromStore ==
    /\ \A query \in ListQueries : \A res \in {FramesList(query)} :
          /\ res.count <= MAX_STORED_FRAMES
          /\ res.totalStored <= MAX_STORED_FRAMES
          /\ Range(res.frames) \subseteq Range(recentFrames)
    /\ \A query \in RangeQueries : \A res \in {FramesRange(query)} :
          /\ res.count <= MAX_STORED_FRAMES
          /\ Range(res.frames) \subseteq Range(recentFrames)
    /\ \A query \in DeviceFilters :
          /\ \A res \in {FramesLatest(query)} :
                res.success => res.frame \in Range(recentFrames)
          /\ \A sequence \in SequenceTexts :
                \A res \in {FrameBySequence(sequence, query)} :
                    res.success => res.frame \in Range(recentFrames)
    /\ Status.storedFrames = Len(recentFrames)
    /\ Status.storedFrames <= MAX_STORED_FRAMES

\* C27: in every state, whatever handlers ran before, every query answers
\* from a store of at most MAX_STORED_FRAMES frames (list-recent and
\* by-range return no more than that, status reports the store's length),
\* and a step that runs a query leaves the stats, the store and the client
\* list unchanged.
C27_QueriesSeeConsistentStore ==
    /\ []AnswersFromStore
    /\ [][(HandlerStep /\ lastOp'.op \in QueryOps) =>
            /\ stats' = stats
            /\ recentFrames' = recentFrames
            /\ clients' = clients
            /\ arrivals' = arrivals]_vars

\* the status query ran on a store at capacity after an eviction, with a
\* subscriber connected
C27_Witness ==
    /\ lastOp.op = "status"
    /\ arrivals > MAX_STORED_FRAMES
    /\ lastOp.res.storedFrames = MAX_STORED_FRAMES
    /\ lastOp.res.connectedClients = 1
    /\ lastOp.res.stats.framesReceived = 3

\* the arriving number is no higher than the one after the device's last
NotAhead(frameSeq, lastFrameSequence) ==
    /\ IsNum(frameSeq) /\ IsNum(lastFrameSequence)
    /\ frameSeq.n <= lastFrameSequence.n + 1

\* C28: every accepted ingestion leaves the device's lastFrameSequence equal
\* to the frameSequence of the request, is counted in the aggregate
\* framesReceived and samplesReceived, stored and broadcast; when the number
\* is no higher than the expected one (duplicate or regressed) the frame is
\* counted for its device too, and droppedFrames of the device and of the
\* aggregate stay as they were.
C28_LastSequenceFollowsArrival ==
    [][(IngestStep /\ lastOp'.res.success) =>
        LET body == lastOp'.req.body
            deviceId == DeviceIdOf(body)
            frameSeq == FrameSeqOf(body)
            samplesCount == SamplesCountOf(body)
        IN  /\ deviceId \in DOMAIN stats'.devices
            /\ stats'.devices[deviceId].lastFrameSequence = frameSeq
            /\ stats'.framesReceived = stats.framesReceived + 1
            /\ stats'.samplesReceived = stats.samplesReceived + samplesCount
            /\ StoresBody(recentFrames', body)
            /\ lastOp'.bcast.msg.type = "frame"
            /\ lastOp'.bcast.msg.data = body
            /\ (/\ deviceId \in DOMAIN stats.devices
                /\ NotAhead(frameSeq, stats.devices[deviceId].lastFrameSequence)) =>
                  /\ stats'.devices[deviceId].framesReceived =
                        stats.devices[deviceId].framesReceived + 1
                  /\ stats'.devices[deviceId].samplesReceived =
                        stats.devices[deviceId].samplesReceived + samplesCount
                  /\ stats'.devices[deviceId].droppedFrames =
                        stats.devices[deviceId].droppedFrames
                  /\ stats'.droppedFrames = stats.droppedFrames]_vars

\* device D1 sent MaxSeq, then 0, then 0 again: the regressed frame and the
\* duplicate were counted and stored, and lastFrameSequence went back to 0
C28_Witness ==
    /\ "D1" \in DOMAIN seqLog /\ "D1" \in DOMAIN stats.devices
    /\ seqLog["D1"] = <<Num(MaxSeq), Num(0), Num(0)>>
    /\ stats.devices["D1"].lastFrameSequence = Num(0)
    /\ stats.devices["D1"].framesReceived = 3
    /\ stats.devices["D1"].samplesReceived = 3 * SAMPLES_PER_FRAME
    /\ stats.devices["D1"].droppedFrames = 0
    /\ stats.droppedFrames = 0
    /\ lastOp.op = "emg" /\ lastOp.res.success
    /\ lastOp.res.frameSequence = Num(0)
    /\ Len(recentFrames) = MAX_STORED_FRAMES
    /\ recentFrames[MAX_STORED_FRAMES].frameSequence = 0

\* C30: an accepted ingestion leaves the stats entry of every device other
\* than the frame's own exactly as it was (framesReceived, samplesReceived,
\* lastFrameSequence, droppedFrames), also when the frame reveals a gap.
C30_OtherDevicesUntouched ==
    [][(IngestStep /\ lastOp'.res.success) =>
        \A d \in DOMAIN stats.devices \ {DeviceIdOf(lastOp'.req.body)} :
            /\ d \in DOMAIN stats'.devices
            /\ stats'.devices[d] = stats.devices[d]]_vars

\* D2 jumped from 0 to MaxSeq after D1 had sent frame 0: the gap is counted
\* for D2 and in the aggregate, D1's entry is as its one frame left it
C30_Witness ==
    /\ DOMAIN stats.devices = {"D1", "D2"}
    /\ DOMAIN seqLog = {"D1", "D2"}
    /\ seqLog["D1"] = <<Num(0)>>
    /\ seqLog["D2"] = <<Num(0), Num(MaxSeq)>>
    /\ lastOp.op = "emg" /\ lastOp.res.success
    /\ lastOp.req.body.deviceId = "D2"
    /\ stats.devices["D2"].droppedFrames = MaxSeq - 1
    /\ stats.droppedFrames = MaxSeq - 1
    /\ stats.devices["D1"] =
          [framesReceived |-> 1, samplesReceived |-> SAMPLES_PER_FRAME,
           lastFrameSequence |-> Num(0), droppedFrames |-> 0]

RECURSIVE SumOfField(_, _, _)
\* the sum of one field over the entries of stats.devices named in keys
SumOfField(devices, field, keys) ==
    IF keys = {} THEN 0
    ELSE LET k == CHOOSE x \in keys : TRUE
         IN  devices[k][field] + SumOfField(devices, field, keys \ {k})

SumOverDevices(field) == SumOfField(stats.devices, field, DOMAIN stats.devices)

\* C29: in every reachable state the aggregate framesReceived,
\* samplesReceived and droppedFrames each equal the sum of that field over
\* the entries of stats.devices.
C29_AggregateIsSumOverDevices ==
    /\ stats.framesReceived = SumOverDevices("framesReceived")
    /\ stats.samplesReceived = SumOverDevices("samplesReceived")
    /\ stats.droppedFrames = SumOverDevices("droppedFrames")

\* the number a sequence text of the requests stands for
NumberOf(text) == IF text = "0" THEN 0 ELSE 1

\* the positions of the store whose frame carries number n and, when the
\* query names a device, comes from that device
PositionsOf(n, query) ==
    {i \in 1..Len(recentFrames) :
        /\ "frameSequence" \in DOMAIN recentFrames[i]
        /\ recentFrames[i].frameSequence = n
        /\ "deviceId" \in DOMAIN query =>
              /\ "deviceId" \in DOMAIN recentFrames[i]
              /\ recentFrames[i].deviceId = query.deviceId}

\* C34: in every state, for every sequence number and every device filter,
\* fetch by sequence answers 404 exactly when no stored frame carries that
\* number (and comes from that device, when one is given), and otherwise
\* answers with the matching frame at the lowest position of the store; a
\* sequence text that is no number is answered 404.
C34_FirstMatchInStorageOrder ==
    \A query \in DeviceFilters :
        /\ \A text \in {"0", "1"} :
              \E res \in {FrameBySequence(text, query)} :
              \E at \in {PositionsOf(NumberOf(text), query)} :
                /\ res.success <=> at # {}
                /\ res.status = IF at = {} THEN 404 ELSE 200
                /\ at # {} =>
                      \E i \in at : /\ \A j \in at : i <= j
                                     /\ res.frame = recentFrames[i]
        /\ ~FrameBySequence("abc", query).success

\* frame 1 was asked for while the store held two frames numbered 1, and
\* the older one was returned
C34_Witness ==
    /\ lastOp.op = "sequence"
    /\ lastOp.req.sequence = "1"
    /\ Len(recentFrames) = 2
    /\ recentFrames[1].frameSequence = 1
    /\ recentFrames[2].frameSequence = 1
    /\ recentFrames[1] # recentFrames[2]
    /\ lastOp.res.success
    /\ lastOp.res.frame = recentFrames[1]
    /\ lastOp.res = FrameBySequence("1", lastOp.req.query)

\* C35: a step that runs clear-all leaves the store empty, answers with the
\* number of frames the store held before it, sends nothing, and leaves the
\* aggregate stats, every entry of stats.devices and the client list with
\* its sockets' states as they were.
C35_ClearAllOnlyEmptiesStore ==
    [][(HandlerStep /\ lastOp'.op = "delete") =>
        /\ recentFrames' = <<>>
        /\ lastOp'.res.success
        /\ lastOp'.res.deletedCount = Len(recentFrames)
        /\ lastOp'.bcast = NoBroadcast
        /\ stats' = stats
        /\ \A d \in DOMAIN stats.devices :
              /\ d \in DOMAIN stats'.devices
              /\ stats'.devices[d] = stats.devices[d]
        /\ clients' = clients
        /\ readyState' = readyState]_vars

\* clear-all removed the two stored frames of three received while a
\* subscriber was connected; D1's last sequence number is still recorded
C35_Witness ==
    /\ lastOp.op = "delete"
    /\ lastOp.res.deletedCount = MAX_STORED_FRAMES
    /\ recentFrames = <<>>
    /\ stats.framesReceived = 3
    /\ "D1" \in DOMAIN stats.devices
    /\ stats.devices["D1"].lastFrameSequence = Num(1)
    /\ stats.devices["D1"].framesReceived = 3
    /\ Len(clients) = 1
    /\ readyState[clients[1]] = "OPEN"

\* the device id the firmware sends (part_000:262)
ProducerId == "ESP32_C6_001"

\* sequence numbers of the posted frames that did not arrive
LostNumbers == {emitted[i].frameSequence : i \in {j \in DOMAIN emitted : emitted[j].httpCode # 200}}

\* C36: once the collector has received a frame of the producer, the
\* device's framesReceived plus droppedFrames equals its lastFrameSequence
\* minus the number of the first frame received plus 1, and droppedFrames is
\* the number of posted frames that were lost with a sequence number between
\* those of the first and the last frame received.
C36_DroppedCountsLostFrames ==
    ProducerId \in DOMAIN stats.devices =>
        \E d \in {stats.devices[ProducerId]} :
        \E first \in {seqLog[ProducerId][1].n} :
            /\ d.framesReceived + d.droppedFrames = d.lastFrameSequence.n - first + 1
            /\ d.droppedFrames =
                  Cardinality({n \in LostNumbers :
                                  first < n /\ n < d.lastFrameSequence.n})
            /\ stats.droppedFrames = d.droppedFrames

\* frame 0 was lost, frame 1 arrived, frame 2 was lost, frame 3 arrived: one
\* dropped frame is counted, the one between the two received
C36_Witness ==
    /\ ProducerId \in DOMAIN stats.devices
    /\ Len(emitted) = 4
    /\ LostNumbers = {0, 2}
    /\ seqLog[ProducerId] = <<Num(1), Num(3)>>
    /\ stats.devices[ProducerId].framesReceived = 2
    /\ stats.devices[ProducerId].droppedFrames = 1
    /\ stats.devices[ProducerId].lastFrameSequence = Num(3)

\* C39: the aggregate droppedFrames and the droppedFrames of every entry of
\* stats.devices are never negative, and no step other than a reset lowers
\* one of them or removes an entry, whatever sequence numbers arrive in
\* whatever order.
C39_DroppedNeverDecreases ==
    /\ [](/\ stats.droppedFrames >= 0
          /\ \A d \in DOMAIN stats.devices : stats.devices[d].droppedFrames >= 0)
    /\ [][~(HandlerStep /\ lastOp'.op = "reset") =>
            /\ stats'.droppedFrames >= stats.droppedFrames
            /\ \A d \in DOMAIN stats.devices :
                  /\ d \in DOMAIN stats'.devices
                  /\ stats'.devices[d].droppedFrames >=
                        stats.devices[d].droppedFrames]_vars

\* D1 sent 0, MaxSeq and then 0 again: the gap counted at the second frame
\* is still there after the regressed third
C39_Witness ==
    /\ "D1" \in DOMAIN seqLog /\ "D1" \in DOMAIN stats.devices
    /\ seqLog["D1"] = <<Num(0), Num(MaxSeq), Num(0)>>
    /\ lastOp.op = "emg" /\ lastOp.res.success
    /\ stats.devices["D1"].droppedFrames = MaxSeq - 1
    /\ stats.droppedFrames = MaxSeq - 1
    /\ stats.devices["D1"].lastFrameSequence = Num(0)

====
